---- MODULE Spec2Model ----
(***************************************************************************)
(* A model of the response-parsing and field-reconciliation logic of the   *)
(* literature-review extraction scripts:                                   *)
(*   src/extract_data_hybrid_docling_pymupdf.py  (variant "hybrid")        *)
(*   src/extract_data_gemini.py                  (variant "gemini")        *)
(* Text is modelled character by character (TLA+ strings with Len, SubSeq  *)
(* and \o), Python values by tagged records, a raised exception by an      *)
(* outcome record with raised = TRUE.                                      *)
(***************************************************************************)
EXTENDS Integers, Sequences, FiniteSets, TLC

VARIABLES
    pc,        \* "call" before the operation has run, "return" after
    op,        \* the operation this behaviour applies to its inputs
    variant,   \* which script's tables and functions are used
    ai_model,  \* hybrid only: the configured AI_MODEL
    response,  \* the outcome of the language-model call (input)
    json_in,   \* the decoded object handed to parse_json_response (input)
    outcome,   \* what the applied operation returned or raised
    docling_result,  \* merge input / hybrid pipeline A record
    pymupdf_result,  \* merge input / hybrid pipeline B record
    filename,        \* merge input: the document's filename
    merged,          \* what merge_extraction_results returned or raised
    record,          \* the record to_dict is called on
    row,             \* the flat row to_dict returned
    files_to_process,  \* main loop: the filenames, in list order
    loop_i,            \* main loop: how many of them have been handled
    all_results,       \* main loop: the results accumulated in memory
    output_csv,        \* the rows in the output file once it is written
    progress_file,     \* screening: the checkpoint file
    model_calls,       \* the documents sent to the language model, in order
    documents,         \* what each document's extraction and model call do
    remaining_files,   \* main loop: the files this run iterates over
    checkpointed,      \* screening: the results the checkpoint file was written from
    resumed_from       \* screening: the checkpointed results when this run started

flatVars == <<record, row>>
screenVars == <<remaining_files, checkpointed, resumed_from>>
mainVars == <<files_to_process, loop_i, all_results, output_csv, progress_file,
              model_calls, documents, screenVars>>

vars == <<pc, op, variant, ai_model, response, json_in, outcome,
          docling_result, pymupdf_result, filename, merged, flatVars, mainVars>>

----------------------------------------------------------------------------
(* Python str primitives *)

\* The backtick character (a bare backtick cannot be written in a literal).
Backtick == SubSeq("`'", 1, 1)

Char(s, i) == SubSeq(s, i, i)

\* str.strip() with no argument removes these (of the model's alphabet).
PyWhitespace == {" ", "\t", "\n", "\r", "\f"}

RECURSIVE LStripChars(_, _)
LStripChars(s, chars) ==
    IF Len(s) > 0 /\ Char(s, 1) \in chars
    THEN LStripChars(SubSeq(s, 2, Len(s)), chars)
    ELSE s

RECURSIVE RStripChars(_, _)
RStripChars(s, chars) ==
    IF Len(s) > 0 /\ Char(s, Len(s)) \in chars
    THEN RStripChars(SubSeq(s, 1, Len(s) - 1), chars)
    ELSE s

Strip(s) == RStripChars(LStripChars(s, PyWhitespace), PyWhitespace)

StartsWith(s, p) == Len(s) >= Len(p) /\ SubSeq(s, 1, Len(p)) = p

\* str.find(sub, from): the least index >= from where sub occurs, 0 if none.
RECURSIVE Find(_, _, _)
Find(s, sub, from) ==
    IF from + Len(sub) - 1 > Len(s) THEN 0
    ELSE IF SubSeq(s, from, from + Len(sub) - 1) = sub THEN from
    ELSE Find(s, sub, from + 1)

Contains(s, sub) == Find(s, sub, 1) > 0

\* str.split(sep): every piece between occurrences of sep.
RECURSIVE Split(_, _)
Split(s, sep) ==
    LET i == Find(s, sep, 1)
    IN  IF i = 0 THEN <<s>>
        ELSE <<SubSeq(s, 1, i - 1)>> \o Split(SubSeq(s, i + Len(sep), Len(s)), sep)

\* str.split(sep, 1): at most one split, at the first occurrence of sep.
SplitOnce(s, sep) ==
    LET i == Find(s, sep, 1)
    IN  IF i = 0 THEN <<s>>
        ELSE <<SubSeq(s, 1, i - 1), SubSeq(s, i + Len(sep), Len(s))>>

----------------------------------------------------------------------------
(* Python values, as json.loads produces them *)

VNone == [t |-> "none", s |-> "", kv |-> <<>>]
VStr(x) == [t |-> "str", s |-> x, kv |-> <<>>]
VNum(x) == [t |-> "num", s |-> x, kv |-> <<>>]
VBool(b) == [t |-> "bool", s |-> IF b THEN "true" ELSE "false", kv |-> <<>>]
VList(items) == [t |-> "list", s |-> "",
                 kv |-> [i \in 1..Len(items) |-> [k |-> "", v |-> items[i]]]]
VDict(pairs) == [t |-> "dict", s |-> "", kv |-> pairs]

Digits == {"0", "1", "2", "3", "4", "5", "6", "7", "8", "9"}

\* bool(value): Python truthiness.
Truthy(v) ==
    CASE v.t = "none" -> FALSE
      [] v.t = "str"  -> v.s /= ""
      [] v.t = "num"  -> \E i \in 1..Len(v.s) : Char(v.s, i) \in (Digits \ {"0"}) \cup {"n", "f"}
      [] v.t = "bool" -> v.s = "true"
      [] OTHER        -> Len(v.kv) > 0

\* type(value).__name__, as it appears in an AttributeError message.
TypeName(v) ==
    CASE v.t = "none" -> "NoneType"
      [] v.t = "str"  -> "str"
      [] v.t = "num"  -> IF Contains(v.s, ".") \/ Contains(v.s, "n") THEN "float" ELSE "int"
      [] v.t = "bool" -> "bool"
      [] v.t = "list" -> "list"
      [] OTHER        -> "dict"

\* dict[key] = value: replaces the value of an existing key in place.
RECURSIVE DictSet(_, _, _)
DictSet(pairs, key, value) ==
    IF pairs = <<>> THEN <<[k |-> key, v |-> value]>>
    ELSE IF Head(pairs).k = key THEN <<[k |-> key, v |-> value]>> \o Tail(pairs)
    ELSE <<Head(pairs)>> \o DictSet(Tail(pairs), key, value)

----------------------------------------------------------------------------
(* json.loads *)

JsonWhitespace == {" ", "\t", "\n", "\r"}

RECURSIVE SkipWs(_, _)
SkipWs(s, i) ==
    IF i <= Len(s) /\ Char(s, i) \in JsonWhitespace THEN SkipWs(s, i + 1) ELSE i

RECURSIVE SkipDigits(_, _)
SkipDigits(s, i) ==
    IF i <= Len(s) /\ Char(s, i) \in Digits THEN SkipDigits(s, i + 1) ELSE i

JsonFail == [ok |-> FALSE, v |-> VNone, pos |-> 0]
JsonOk(v, pos) == [ok |-> TRUE, v |-> v, pos |-> pos]

\* The character an escape stands for; \b and \uXXXX are outside the model's
\* alphabet.
Unescaped(c) ==
    CASE c = "n" -> "\n"
      [] c = "t" -> "\t"
      [] c = "r" -> "\r"
      [] c = "f" -> "\f"
      [] OTHER   -> c

\* py_scanstring from position j inside a literal: acc is the text decoded so
\* far. A raw control character or an unknown escape ends the decode.
RECURSIVE ScanChars(_, _, _)
ScanChars(s, j, acc) ==
    IF j > Len(s) THEN JsonFail
    ELSE LET c == Char(s, j)
         IN  IF c = "\"" THEN JsonOk(VStr(acc), j + 1)
             ELSE IF c \in {"\n", "\t", "\r", "\f"} THEN JsonFail
             ELSE IF c /= "\\" THEN ScanChars(s, j + 1, acc \o c)
             ELSE IF j < Len(s) /\ Char(s, j + 1) \in {"\"", "\\", "/", "n", "t", "r", "f"}
                  THEN ScanChars(s, j + 2, acc \o Unescaped(Char(s, j + 1)))
             ELSE JsonFail

\* A string literal starting at the opening quote at i.
ScanString(s, i) ==
    LET j == Find(s, "\"", i + 1)
        body == SubSeq(s, i + 1, j - 1)
    IN  IF j = 0 THEN JsonFail
        ELSE IF \E k \in 1..Len(body) : Char(body, k) \in {"\n", "\t", "\r", "\f"}
             THEN JsonFail
        ELSE IF \E k \in 1..Len(body) : Char(body, k) = "\\"
             THEN ScanChars(s, i + 1, "")
        ELSE JsonOk(VStr(body), j + 1)

\* NUMBER_RE: -?(0|[1-9]\d*)(\.\d+)? ; exponents are outside the alphabet.
ScanNumber(s, i) ==
    LET i0 == IF Char(s, i) = "-" THEN i + 1 ELSE i
        i1 == IF i0 <= Len(s) /\ Char(s, i0) = "0" THEN i0 + 1 ELSE SkipDigits(s, i0)
        i2 == IF i1 < Len(s) /\ Char(s, i1) = "." /\ Char(s, i1 + 1) \in Digits
              THEN SkipDigits(s, i1 + 1) ELSE i1
    IN  IF i1 = i0 THEN JsonFail ELSE JsonOk(VNum(SubSeq(s, i, i2 - 1)), i2)

RECURSIVE ScanValue(_, _)
RECURSIVE ScanMembers(_, _, _)
RECURSIVE ScanElements(_, _, _)

\* JSONObject: i is just past a key's opening position; pairs read so far.
ScanMembers(s, i, pairs) ==
    IF i > Len(s) \/ Char(s, i) /= "\"" THEN JsonFail
    ELSE LET key == ScanString(s, i)
             c == IF key.ok THEN SkipWs(s, key.pos) ELSE 0
         IN  IF ~key.ok \/ c > Len(s) \/ Char(s, c) /= ":" THEN JsonFail
             ELSE LET val == ScanValue(s, SkipWs(s, c + 1))
                      e == IF val.ok THEN SkipWs(s, val.pos) ELSE 0
                      now == DictSet(pairs, key.v.s, val.v)
                  IN  IF ~val.ok \/ e > Len(s) THEN JsonFail
                      ELSE IF Char(s, e) = "}" THEN JsonOk(VDict(now), e + 1)
                      ELSE IF Char(s, e) = "," THEN ScanMembers(s, SkipWs(s, e + 1), now)
                      ELSE JsonFail

\* JSONArray: i is at the next element; items read so far.
ScanElements(s, i, items) ==
    LET val == ScanValue(s, i)
        e == IF val.ok THEN SkipWs(s, val.pos) ELSE 0
        now == Append(items, val.v)
    IN  IF ~val.ok \/ e > Len(s) THEN JsonFail
        ELSE IF Char(s, e) = "]" THEN JsonOk(VList(now), e + 1)
        ELSE IF Char(s, e) = "," THEN ScanElements(s, SkipWs(s, e + 1), now)
        ELSE JsonFail

\* scan_once: the value starting exactly at i.
ScanValue(s, i) ==
    IF i > Len(s) THEN JsonFail
    ELSE LET c == Char(s, i)
             rest == SubSeq(s, i, Len(s))
         IN  CASE c = "\"" -> ScanString(s, i)
               [] c = "{" ->
                    LET j == SkipWs(s, i + 1)
                    IN  IF j <= Len(s) /\ Char(s, j) = "}" THEN JsonOk(VDict(<<>>), j + 1)
                        ELSE ScanMembers(s, j, <<>>)
               [] c = "[" ->
                    LET j == SkipWs(s, i + 1)
                    IN  IF j <= Len(s) /\ Char(s, j) = "]" THEN JsonOk(VList(<<>>), j + 1)
                        ELSE ScanElements(s, j, <<>>)
               [] c = "n" /\ StartsWith(rest, "null") -> JsonOk(VNone, i + 4)
               [] c = "t" /\ StartsWith(rest, "true") -> JsonOk(VBool(TRUE), i + 4)
               [] c = "f" /\ StartsWith(rest, "false") -> JsonOk(VBool(FALSE), i + 5)
               [] c = "N" /\ StartsWith(rest, "NaN") -> JsonOk(VNum("nan"), i + 3)
               [] c = "I" /\ StartsWith(rest, "Infinity") -> JsonOk(VNum("inf"), i + 8)
               [] c = "-" /\ StartsWith(rest, "-Infinity") -> JsonOk(VNum("-inf"), i + 9)
               [] c \in Digits \cup {"-"} -> ScanNumber(s, i)
               [] OTHER -> JsonFail

\* json.loads(s): ok = FALSE stands for json.JSONDecodeError.
JsonLoads(s) ==
    LET r == ScanValue(s, SkipWs(s, 1))
    IN  IF r.ok /\ SkipWs(s, r.pos) = Len(s) + 1 THEN r ELSE JsonFail

----------------------------------------------------------------------------
(* The field schema and the parser tables of the two scripts *)

\* The section dataclasses, in the order of ExtractedData's attributes.
HybridSchema == <<
    [name |-> "identification", fields |-> <<"title", "lead_author", "year", "journal",
        "doi", "country">>],
    [name |-> "characteristics", fields |-> <<"study_aim", "followup_duration",
        "multisite_study">>],
    [name |-> "participants", fields |-> <<"clinical_population", "n_patient_group",
        "n_control_group", "n_overall", "mean_age_patient", "sd_age_patient",
        "mean_age_control", "sd_age_control", "age_range_patient", "age_range_control",
        "gender_distribution_patient", "gender_distribution_control">>],
    [name |-> "mri_acquisition", fields |-> <<"scanner_strength",
        "scanner_manufacturer", "b_values", "gradient_directions", "reverse_phase_encoding",
        "voxel_size", "tr", "te", "acquisition_time">>],
    [name |-> "analysis_methods", fields |-> <<"preprocessing_steps",
        "analysis_software", "analysis_approach", "free_water_method", "regions_analyzed",
        "free_water_metrics_reported", "if_atlas_name_of_atlas", "roi_definition_method">>],
    [name |-> "free_water_results", fields |-> <<"clinical_group_fw_values",
        "control_group_fw_values", "group_comparison_p_value">>],
    [name |-> "correlations", fields |-> <<"correlations_reported",
        "correlation_coefficients">>],
    [name |-> "key_findings", fields |-> <<"longitudinal_data_available",
        "longitudinal_data_results", "primary_finding", "main_interpretation",
        "key_limitations", "other_measures">>] >>

\* parse_json_response: the key lists of the if/elif chain, in order.
HybridJsonKeys == <<
    [section |-> "identification", keys |-> <<"title", "lead_author", "year", "journal",
        "doi", "country">>],
    [section |-> "characteristics", keys |-> <<"study_aim", "followup_duration",
        "multisite_study">>],
    [section |-> "participants", keys |-> <<"clinical_population", "n_patient_group",
        "n_control_group", "n_overall", "mean_age_patient", "sd_age_patient",
        "mean_age_control", "sd_age_control", "age_range_patient", "age_range_control",
        "gender_distribution_patient", "gender_distribution_control">>],
    [section |-> "mri_acquisition", keys |-> <<"scanner_strength",
        "scanner_manufacturer", "b_values", "gradient_directions", "reverse_phase_encoding",
        "voxel_size", "tr", "te", "acquisition_time">>],
    [section |-> "analysis_methods", keys |-> <<"preprocessing_steps",
        "analysis_software", "analysis_approach", "free_water_method", "regions_analyzed",
        "free_water_metrics_reported", "if_atlas_name_of_atlas", "roi_definition_method">>],
    [section |-> "free_water_results", keys |-> <<"clinical_group_fw_values",
        "control_group_fw_values", "group_comparison_p_value">>],
    [section |-> "correlations", keys |-> <<"correlations_reported",
        "correlation_coefficients">>],
    [section |-> "key_findings", keys |-> <<"longitudinal_data_available",
        "longitudinal_data_results", "primary_finding", "main_interpretation",
        "key_limitations", "other_measures">>] >>

\* parse_structured_response: the label tests of the if/elif chain, in order.
HybridLabels == <<
    [labels |-> <<"Title">>, section |-> "identification", field |-> "title"],
    [labels |-> <<"Lead author">>, section |-> "identification", field |-> "lead_author"],
    [labels |-> <<"Year", "Year of publication">>, section |-> "identification", field |-> "year"],
    [labels |-> <<"Journal", "Journal name">>, section |-> "identification", field |-> "journal"],
    [labels |-> <<"DOI">>, section |-> "identification", field |-> "doi"],
    [labels |-> <<"Country">>, section |-> "identification", field |-> "country"],
    [labels |-> <<"Study aim", "Aim">>, section |-> "characteristics", field |-> "study_aim"],
    [labels |-> <<"Follow-up duration">>, section |-> "characteristics", field |-> "followup_duration"],
    [labels |-> <<"Multi-site study">>, section |-> "characteristics", field |-> "multisite_study"],
    [labels |-> <<"Clinical population">>, section |-> "participants", field |-> "clinical_population"],
    [labels |-> <<"N patient group">>, section |-> "participants", field |-> "n_patient_group"],
    [labels |-> <<"N control group">>, section |-> "participants", field |-> "n_control_group"],
    [labels |-> <<"N overall">>, section |-> "participants", field |-> "n_overall"],
    [labels |-> <<"Mean age patient">>, section |-> "participants", field |-> "mean_age_patient"],
    [labels |-> <<"SD age patient">>, section |-> "participants", field |-> "sd_age_patient"],
    [labels |-> <<"Mean age control">>, section |-> "participants", field |-> "mean_age_control"],
    [labels |-> <<"SD age control">>, section |-> "participants", field |-> "sd_age_control"],
    [labels |-> <<"Age range patient">>, section |-> "participants", field |-> "age_range_patient"],
    [labels |-> <<"Age range control">>, section |-> "participants", field |-> "age_range_control"],
    [labels |-> <<"Gender distribution patient">>, section |-> "participants", field |-> "gender_distribution_patient"],
    [labels |-> <<"Gender distribution control">>, section |-> "participants", field |-> "gender_distribution_control"],
    [labels |-> <<"Scanner strength">>, section |-> "mri_acquisition", field |-> "scanner_strength"],
    [labels |-> <<"Scanner manufacturer">>, section |-> "mri_acquisition", field |-> "scanner_manufacturer"],
    [labels |-> <<"b-values">>, section |-> "mri_acquisition", field |-> "b_values"],
    [labels |-> <<"Gradient directions">>, section |-> "mri_acquisition", field |-> "gradient_directions"],
    [labels |-> <<"Reverse phase-encoding">>, section |-> "mri_acquisition", field |-> "reverse_phase_encoding"],
    [labels |-> <<"Voxel size">>, section |-> "mri_acquisition", field |-> "voxel_size"],
    [labels |-> <<"TR">>, section |-> "mri_acquisition", field |-> "tr"],
    [labels |-> <<"TE">>, section |-> "mri_acquisition", field |-> "te"],
    [labels |-> <<"Acquisition time">>, section |-> "mri_acquisition", field |-> "acquisition_time"],
    [labels |-> <<"Preprocessing steps">>, section |-> "analysis_methods", field |-> "preprocessing_steps"],
    [labels |-> <<"Analysis software">>, section |-> "analysis_methods", field |-> "analysis_software"],
    [labels |-> <<"Analysis approach">>, section |-> "analysis_methods", field |-> "analysis_approach"],
    [labels |-> <<"Free-water method">>, section |-> "analysis_methods", field |-> "free_water_method"],
    [labels |-> <<"Regions analyzed">>, section |-> "analysis_methods", field |-> "regions_analyzed"],
    [labels |-> <<"Free-water metrics reported">>, section |-> "analysis_methods", field |-> "free_water_metrics_reported"],
    [labels |-> <<"If atlas name of atlas">>, section |-> "analysis_methods", field |-> "if_atlas_name_of_atlas"],
    [labels |-> <<"ROI definition method">>, section |-> "analysis_methods", field |-> "roi_definition_method"],
    [labels |-> <<"Clinical group FW values">>, section |-> "free_water_results", field |-> "clinical_group_fw_values"],
    [labels |-> <<"Control group FW values">>, section |-> "free_water_results", field |-> "control_group_fw_values"],
    [labels |-> <<"Group comparison p-value">>, section |-> "free_water_results", field |-> "group_comparison_p_value"],
    [labels |-> <<"Correlations reported">>, section |-> "correlations", field |-> "correlations_reported"],
    [labels |-> <<"Correlation coefficients">>, section |-> "correlations", field |-> "correlation_coefficients"],
    [labels |-> <<"Longitudinal data available">>, section |-> "key_findings", field |-> "longitudinal_data_available"],
    [labels |-> <<"Longitudinal data results">>, section |-> "key_findings", field |-> "longitudinal_data_results"],
    [labels |-> <<"Primary finding">>, section |-> "key_findings", field |-> "primary_finding"],
    [labels |-> <<"Main interpretation">>, section |-> "key_findings", field |-> "main_interpretation"],
    [labels |-> <<"Key limitations">>, section |-> "key_findings", field |-> "key_limitations"],
    [labels |-> <<"Other measures">>, section |-> "key_findings", field |-> "other_measures"] >>

\* The section dataclasses, in the order of ExtractedData's attributes.
GeminiSchema == <<
    [name |-> "identification", fields |-> <<"title", "lead_author", "year", "journal",
        "doi", "country">>],
    [name |-> "characteristics", fields |-> <<"study_aim", "study_design",
        "followup_duration", "multisite_study">>],
    [name |-> "participants", fields |-> <<"clinical_population", "diagnosis",
        "disease_duration", "severity_scale", "clinical_scores", "control_group",
        "total_participants">>],
    [name |-> "mri_acquisition", fields |-> <<"field_strength", "manufacturer",
        "b_values", "num_b_shells", "gradient_directions", "reverse_phase_encoding",
        "voxel_size", "tr", "te", "acquisition_time">>],
    [name |-> "analysis_methods", fields |-> <<"preprocessing", "analysis_software",
        "free_water_method", "free_water_metrics", "analysis_approach", "tissue_analyzed",
        "regions_analyzed">>],
    [name |-> "statistical_analysis", fields |-> <<"multiple_comparison_correction">>],
    [name |-> "free_water_results", fields |-> <<"clinical_group_fw_values",
        "control_group_fw_values", "group_comparison_p_value">>],
    [name |-> "associations", fields |-> <<"clinical_measure_associations",
        "measure_name", "association_type", "association_statistics">>],
    [name |-> "biomarkers", fields |-> <<"biomarker_measured", "biomarker_details",
        "biomarker_associations">>],
    [name |-> "key_findings", fields |-> <<"primary_finding", "main_interpretation",
        "key_limitations", "other_measures">>] >>

\* parse_json_response: the key lists of the if/elif chain, in order.
GeminiJsonKeys == <<
    [section |-> "identification", keys |-> <<"title", "lead_author", "year", "journal",
        "doi", "country">>],
    [section |-> "characteristics", keys |-> <<"study_aim", "study_design",
        "followup_duration", "multisite_study">>],
    [section |-> "participants", keys |-> <<"clinical_population", "diagnosis",
        "disease_duration", "severity_scale", "clinical_scores", "control_group",
        "total_participants">>],
    [section |-> "mri_acquisition", keys |-> <<"field_strength", "manufacturer",
        "b_values", "num_b_shells", "gradient_directions", "reverse_phase_encoding",
        "voxel_size", "tr", "te", "acquisition_time">>],
    [section |-> "analysis_methods", keys |-> <<"preprocessing", "analysis_software",
        "free_water_method", "free_water_metrics", "analysis_approach", "tissue_analyzed",
        "regions_analyzed">>],
    [section |-> "statistical_analysis", keys |-> <<"multiple_comparison_correction">>],
    [section |-> "free_water_results", keys |-> <<"clinical_group_fw_values",
        "control_group_fw_values", "group_comparison_p_value">>],
    [section |-> "associations", keys |-> <<"clinical_measure_associations",
        "measure_name", "association_type", "association_statistics">>],
    [section |-> "biomarkers", keys |-> <<"biomarker_measured", "biomarker_details",
        "biomarker_associations">>],
    [section |-> "key_findings", keys |-> <<"primary_finding", "main_interpretation",
        "key_limitations", "other_measures">>] >>

\* parse_structured_response: the label tests of the if/elif chain, in order.
GeminiLabels == <<
    [labels |-> <<"Title">>, section |-> "identification", field |-> "title"],
    [labels |-> <<"Lead author">>, section |-> "identification", field |-> "lead_author"],
    [labels |-> <<"Year", "Year of publication">>, section |-> "identification", field |-> "year"],
    [labels |-> <<"Journal", "Journal name">>, section |-> "identification", field |-> "journal"],
    [labels |-> <<"DOI">>, section |-> "identification", field |-> "doi"],
    [labels |-> <<"Country">>, section |-> "identification", field |-> "country"],
    [labels |-> <<"Aim", "Aim of study">>, section |-> "characteristics", field |-> "study_aim"],
    [labels |-> <<"Study design">>, section |-> "characteristics", field |-> "study_design"],
    [labels |-> <<"Follow-up duration">>, section |-> "characteristics", field |-> "followup_duration"],
    [labels |-> <<"Multi-site study">>, section |-> "characteristics", field |-> "multisite_study"],
    [labels |-> <<"Clinical population">>, section |-> "participants", field |-> "clinical_population"],
    [labels |-> <<"Diagnosis", "Clinical population diagnosis">>, section |-> "participants", field |-> "diagnosis"],
    [labels |-> <<"Disease duration">>, section |-> "participants", field |-> "disease_duration"],
    [labels |-> <<"Severity scale used", "Disease severity scale/assessment used">>, section |-> "participants", field |-> "severity_scale"],
    [labels |-> <<"Clinical scores", "Disease severity/Clinical scores">>, section |-> "participants", field |-> "clinical_scores"],
    [labels |-> <<"Control group">>, section |-> "participants", field |-> "control_group"],
    [labels |-> <<"Total N", "Total number of participants">>, section |-> "participants", field |-> "total_participants"],
    [labels |-> <<"Scanner field strength">>, section |-> "mri_acquisition", field |-> "field_strength"],
    [labels |-> <<"Manufacturer">>, section |-> "mri_acquisition", field |-> "manufacturer"],
    [labels |-> <<"b-values">>, section |-> "mri_acquisition", field |-> "b_values"],
    [labels |-> <<"Number of b-shells">>, section |-> "mri_acquisition", field |-> "num_b_shells"],
    [labels |-> <<"Gradient directions">>, section |-> "mri_acquisition", field |-> "gradient_directions"],
    [labels |-> <<"Reverse phase-encoding">>, section |-> "mri_acquisition", field |-> "reverse_phase_encoding"],
    [labels |-> <<"Voxel size">>, section |-> "mri_acquisition", field |-> "voxel_size"],
    [labels |-> <<"TR">>, section |-> "mri_acquisition", field |-> "tr"],
    [labels |-> <<"TE">>, section |-> "mri_acquisition", field |-> "te"],
    [labels |-> <<"Acquisition time">>, section |-> "mri_acquisition", field |-> "acquisition_time"],
    [labels |-> <<"Preprocessing">>, section |-> "analysis_methods", field |-> "preprocessing"],
    [labels |-> <<"Analysis software">>, section |-> "analysis_methods", field |-> "analysis_software"],
    [labels |-> <<"Free-water method">>, section |-> "analysis_methods", field |-> "free_water_method"],
    [labels |-> <<"Free-water metrics">>, section |-> "analysis_methods", field |-> "free_water_metrics"],
    [labels |-> <<"Analysis approach">>, section |-> "analysis_methods", field |-> "analysis_approach"],
    [labels |-> <<"Tissue analyzed">>, section |-> "analysis_methods", field |-> "tissue_analyzed"],
    [labels |-> <<"Regions analyzed">>, section |-> "analysis_methods", field |-> "regions_analyzed"],
    [labels |-> <<"Multiple comparison correction">>, section |-> "statistical_analysis", field |-> "multiple_comparison_correction"],
    [labels |-> <<"Clinical group FW values">>, section |-> "free_water_results", field |-> "clinical_group_fw_values"],
    [labels |-> <<"Control group FW values">>, section |-> "free_water_results", field |-> "control_group_fw_values"],
    [labels |-> <<"Group comparison p-value">>, section |-> "free_water_results", field |-> "group_comparison_p_value"],
    [labels |-> <<"Clinical measure associations">>, section |-> "associations", field |-> "clinical_measure_associations"],
    [labels |-> <<"Measure name">>, section |-> "associations", field |-> "measure_name"],
    [labels |-> <<"Association type">>, section |-> "associations", field |-> "association_type"],
    [labels |-> <<"Association statistics">>, section |-> "associations", field |-> "association_statistics"],
    [labels |-> <<"Biomarker measured">>, section |-> "biomarkers", field |-> "biomarker_measured"],
    [labels |-> <<"Biomarker details">>, section |-> "biomarkers", field |-> "biomarker_details"],
    [labels |-> <<"Biomarker associations">>, section |-> "biomarkers", field |-> "biomarker_associations"],
    [labels |-> <<"Primary finding">>, section |-> "key_findings", field |-> "primary_finding"],
    [labels |-> <<"Main interpretation">>, section |-> "key_findings", field |-> "main_interpretation"],
    [labels |-> <<"Key limitations">>, section |-> "key_findings", field |-> "key_limitations"],
    [labels |-> <<"Other measures">>, section |-> "key_findings", field |-> "other_measures"] >>

Variants == {"hybrid", "gemini"}

Schema(v) == IF v = "hybrid" THEN HybridSchema ELSE GeminiSchema
\* JsonKeys with the last elif of the chain missing.
JsonKeys_lastListMissing(v) ==
    IF v = "hybrid" THEN SubSeq(HybridJsonKeys, 1, Len(HybridJsonKeys) - 1)
    ELSE SubSeq(GeminiJsonKeys, 1, Len(GeminiJsonKeys) - 1)

JsonKeys(v) == IF v = "hybrid" THEN HybridJsonKeys ELSE GeminiJsonKeys
Labels(v) == IF v = "hybrid" THEN HybridLabels ELSE GeminiLabels

Range(seq) == {seq[i] : i \in 1..Len(seq)}

SectionNames(v) == {Schema(v)[i].name : i \in 1..Len(Schema(v))}

\* The fields of section dataclass s (its __annotations__).
FieldSeq(v, s) == Schema(v)[CHOOSE i \in 1..Len(Schema(v)) : Schema(v)[i].name = s].fields
SectionFields(v, s) == Range(FieldSeq(v, s))

AllFields(v) == UNION {SectionFields(v, s) : s \in SectionNames(v)}

\* A section dataclass built with no arguments: every field None.
NewSection(v, s) == [present |-> TRUE, f |-> [x \in SectionFields(v, s) |-> VNone]]
\* A section attribute left None; f is then never read.
NoSection(v, s) == [present |-> FALSE, f |-> [x \in SectionFields(v, s) |-> VNone]]

\* ExtractedData(): filename, sections, error and extraction_method all None.
\* (The gemini dataclass has no extraction_method; it stays None there.)
ExtractedData(v) ==
    [filename |-> VNone, error |-> VNone, extraction_method |-> VNone,
     sec |-> [s \in SectionNames(v) |-> NoSection(v, s)]]

\* ExtractedData(error=msg)
ErrorRecord(v, msg) == [ExtractedData(v) EXCEPT !.error = VStr(msg)]

\* ExtractedData(identification=..., ...) with every section passed.
RecordOf(v, secs) == [ExtractedData(v) EXCEPT !.sec = secs]

\* What a call did: returned rec, or raised exc.
Return(rec) == [raised |-> FALSE, exc |-> "", rec |-> rec]
Raise(v, exc) == [raised |-> TRUE, exc |-> exc, rec |-> ExtractedData(v)]

----------------------------------------------------------------------------
(* parse_json_response *)

\* The first branch of the if/elif chain whose key list holds key; 0 if none.
RECURSIVE KeyBranch(_, _, _)
KeyBranch(v, key, i) ==
    IF i > Len(JsonKeys(v)) THEN 0
    ELSE IF key \in Range(JsonKeys(v)[i].keys) THEN i
    ELSE KeyBranch(v, key, i + 1)

\* setattr(section, name, value): a name that is no dataclass field becomes an
\* ad hoc attribute, which no schema field reads.
SetAttr(secs, s, name, value) ==
    IF name \in DOMAIN secs[s].f THEN [secs EXCEPT ![s].f[name] = value] ELSE secs

\* MapJsonItems descending into a nested object, as if sections were nested.
RECURSIVE MapJsonItems_nested(_, _, _)
MapJsonItems_nested(v, secs, items) ==
    IF items = <<>> THEN secs
    ELSE LET key == Head(items).k
             val == Head(items).v
             b == KeyBranch(v, key, 1)
         IN  MapJsonItems_nested(v,
                 IF val.t = "dict" THEN MapJsonItems_nested(v, secs, val.kv)
                 ELSE IF b = 0 THEN secs
                 ELSE SetAttr(secs, JsonKeys(v)[b].section, key, val),
                 Tail(items))

\* The body of "for key, value in json_data.items()".
RECURSIVE MapJsonItems(_, _, _)
MapJsonItems(v, secs, items) ==
    IF items = <<>> THEN secs
    ELSE LET key == Head(items).k
             b == KeyBranch(v, key, 1)
         IN  MapJsonItems(v,
                 IF b = 0 THEN secs
                 ELSE SetAttr(secs, JsonKeys(v)[b].section, key, Head(items).v),
                 Tail(items))

parse_json_response(v, json_data) ==
    IF json_data.t /= "dict"
    THEN Raise(v, "'" \o TypeName(json_data) \o "' object has no attribute 'items'")
    ELSE Return(RecordOf(v,
            MapJsonItems(v, [s \in SectionNames(v) |-> NewSection(v, s)], json_data.kv)))

----------------------------------------------------------------------------
(* parse_structured_response *)

\* The first branch of the if/elif chain that accepts field_name; 0 if none.
RECURSIVE LabelBranch(_, _, _)
LabelBranch(v, field_name, i) ==
    IF i > Len(Labels(v)) THEN 0
    ELSE IF field_name \in Range(Labels(v)[i].labels) THEN i
    ELSE LabelBranch(v, field_name, i + 1)

\* ParseLine testing startswith('-') instead of startswith('- ').
ParseLine_anyDash(v, secs, raw_line) ==
    LET line == Strip(raw_line)
    IN  IF StartsWith(line, "-") /\ ~StartsWith(line, "---") /\ Contains(line, ": ")
        THEN LET parts == SplitOnce(SubSeq(line, 3, Len(line)), ": ")
                 b == IF Len(parts) = 2 THEN LabelBranch(v, Strip(parts[1]), 1) ELSE 0
             IN  [raised |-> FALSE,
                  secs |-> IF b = 0 THEN secs
                           ELSE [secs EXCEPT ![Labels(v)[b].section].f[Labels(v)[b].field]
                                                 = VStr(Strip(parts[2]))]]
        ELSE [raised |-> FALSE, secs |-> secs]

\* One iteration of "for line in lines": the sections afterwards, or the
\* ValueError of unpacking a split that gave fewer than two parts.
ParseLine(v, secs, raw_line) ==
    LET line == Strip(raw_line)
    IN  IF line = "" \/ StartsWith(line, "**") \/ StartsWith(line, "---")
        THEN [raised |-> FALSE, secs |-> secs]
        ELSE IF StartsWith(line, "- ") /\ Contains(line, ": ")
        THEN LET parts == SplitOnce(SubSeq(line, 3, Len(line)), ": ")
             IN  IF Len(parts) /= 2 THEN [raised |-> TRUE, secs |-> secs]
                 ELSE LET field_name == Strip(parts[1])
                          value == Strip(parts[2])
                          b == LabelBranch(v, field_name, 1)
                      IN  [raised |-> FALSE,
                           secs |-> IF b = 0 THEN secs
                                    ELSE [secs EXCEPT ![Labels(v)[b].section].f[Labels(v)[b].field]
                                                          = VStr(value)]]
        ELSE [raised |-> FALSE, secs |-> secs]

\* ParseLines taking the lines from the last to the first, so that the first
\* line of a field is the one that stays.
RECURSIVE ParseLines_firstWins(_, _, _)
ParseLines_firstWins(v, secs, lines) ==
    IF lines = <<>> THEN [raised |-> FALSE, secs |-> secs]
    ELSE LET r == ParseLine(v, secs, lines[Len(lines)])
         IN  IF r.raised THEN r
             ELSE ParseLines_firstWins(v, r.secs, SubSeq(lines, 1, Len(lines) - 1))

\* "for line in lines": the lines in order, each on what the earlier ones left.
RECURSIVE ParseLines(_, _, _)
ParseLines(v, secs, lines) ==
    IF lines = <<>> THEN [raised |-> FALSE, secs |-> secs]
    ELSE LET r == ParseLine(v, secs, Head(lines))
         IN  IF r.raised THEN r ELSE ParseLines(v, r.secs, Tail(lines))

parse_structured_response(v, text) ==
    LET r == ParseLines(v, [s \in SectionNames(v) |-> NewSection(v, s)],
                        Split(Strip(text), "\n"))
    IN  IF r.raised THEN Raise(v, "not enough values to unpack (expected 2, got 1)")
        ELSE Return(RecordOf(v, r.secs))

----------------------------------------------------------------------------
(* extract_data_with_ai (hybrid) and extract_data_with_gemini *)

\* CatchException with the except clause missing: the exception propagates.
CatchException_propagates(v, prefix, body) == body

\* The outer "except Exception as e": a raise inside the try block becomes an
\* error record whose message ends with str(e).
CatchException(v, prefix, body) ==
    IF body.raised THEN Return(ErrorRecord(v, prefix \o body.exc)) ELSE body

\* CleanResponse without the two fence-stripping calls.
CleanResponse_fenceKept(raw) == Strip(raw)

\* raw_response_text.strip().lstrip('```json').rstrip('```'): lstrip and rstrip
\* remove any run of the characters of their argument.
CleanResponse(raw) ==
    RStripChars(LStripChars(Strip(raw), {Backtick, "j", "s", "o", "n"}), {Backtick})

\* The inner try: structured decode first, the line-oriented parse when
\* json.loads raises JSONDecodeError.
ParseResponse(v, raw) ==
    LET decoded == JsonLoads(CleanResponse(raw))
    IN  IF decoded.ok THEN parse_json_response(v, decoded.v)
        ELSE parse_structured_response(v, raw)

\* CallAndParse with a second attempt after a failed call, which is answered.
CallAndParse_retried(v, resp, empty_msg) ==
    IF resp.kind \in {"transport_error", "text_raises", "no_text"}
    THEN Return(RecordOf(v, [s \in SectionNames(v) |-> NewSection(v, s)]))
    ELSE ParseResponse(v, resp.text)

\* The try block from the model call on. resp.kind is what the call did:
\*   "transport_error"  the call raised (network, timeout, quota)
\*   "text_raises"      reading the response's text raised (blocked candidate)
\*   "no_text"          no text attribute / empty content list
\*   "text"             resp.text is the raw text
CallAndParse(v, resp, empty_msg) ==
    IF resp.kind \in {"transport_error", "text_raises"} THEN Raise(v, resp.text)
    ELSE LET raw_response_text == IF resp.kind = "no_text" THEN "" ELSE resp.text
         IN  IF raw_response_text = "" THEN Return(ErrorRecord(v, empty_msg))
             ELSE ParseResponse(v, raw_response_text)

extract_data_with_ai(model, resp) ==
    CatchException("hybrid", "An unexpected AI API error occurred: ",
        IF model \notin {"gemini", "claude"}
        THEN Return(ErrorRecord("hybrid", "Unsupported AI model: " \o model))
        ELSE CallAndParse("hybrid", resp,
                 "The AI API returned an empty response, possibly due to a safety filter."))

extract_data_with_gemini(resp) ==
    CatchException("gemini", "An unexpected API error occurred: ",
        CallAndParse("gemini", resp,
            "The API returned an empty response, possibly due to a safety filter."))

----------------------------------------------------------------------------
(* is_meaningful_value and merge_extraction_results (hybrid script) *)

\* FIELD_PRIORITIES
FIELD_PRIORITIES == <<
    [field |-> "scanner_strength", priority |-> "docling"],
    [field |-> "scanner_manufacturer", priority |-> "docling"],
    [field |-> "b_values", priority |-> "docling"],
    [field |-> "gradient_directions", priority |-> "docling"],
    [field |-> "voxel_size", priority |-> "docling"],
    [field |-> "tr", priority |-> "docling"],
    [field |-> "te", priority |-> "docling"],
    [field |-> "clinical_group_fw_values", priority |-> "pymupdf"],
    [field |-> "control_group_fw_values", priority |-> "pymupdf"],
    [field |-> "group_comparison_p_value", priority |-> "pymupdf"],
    [field |-> "correlation_coefficients", priority |-> "pymupdf"],
    [field |-> "key_limitations", priority |-> "pymupdf"],
    [field |-> "main_interpretation", priority |-> "pymupdf"],
    [field |-> "title", priority |-> "prefer_non_empty"],
    [field |-> "study_aim", priority |-> "prefer_non_empty"],
    [field |-> "regions_analyzed", priority |-> "prefer_non_empty"],
    [field |-> "primary_finding", priority |-> "prefer_non_empty"] >>

\* FieldPriority with the table never consulted: every field on the default.
FieldPriority_defaultOnly(field_name) == "prefer_non_empty"

\* FIELD_PRIORITIES.get(field_name, 'prefer_non_empty')
FieldPriority(field_name) ==
    IF \E i \in 1..Len(FIELD_PRIORITIES) : FIELD_PRIORITIES[i].field = field_name
    THEN FIELD_PRIORITIES[CHOOSE i \in 1..Len(FIELD_PRIORITIES) :
                              FIELD_PRIORITIES[i].field = field_name].priority
    ELSE "prefer_non_empty"

\* The result of an expression: a value, or a raised exception.
Val(x) == [raised |-> FALSE, exc |-> "", val |-> x]
Exc(msg) == [raised |-> TRUE, exc |-> msg, val |-> VNone]

\* is_meaningful_value without the two placeholder tests.
is_meaningful_value_placeholdersKept(value) ==
    IF ~Truthy(value) THEN [raised |-> FALSE, exc |-> "", val |-> FALSE]
    ELSE IF value.t /= "str"
         THEN [raised |-> TRUE, val |-> FALSE,
               exc |-> "'" \o TypeName(value) \o "' object has no attribute 'strip'"]
    ELSE [raised |-> FALSE, exc |-> "", val |-> Strip(value.s) /= ""]

\* is_meaningful_value: "not value or value == 'Not reported' or value == 'NR'
\* or value.strip() == ''"; value.strip() is reached by every truthy value
\* that equals neither sentinel, and only a str has it.
is_meaningful_value(value) ==
    IF ~Truthy(value) THEN [raised |-> FALSE, exc |-> "", val |-> FALSE]
    ELSE IF value.t = "str" /\ value.s \in {"Not reported", "NR"}
         THEN [raised |-> FALSE, exc |-> "", val |-> FALSE]
    ELSE IF value.t /= "str"
         THEN [raised |-> TRUE, val |-> FALSE,
               exc |-> "'" \o TypeName(value) \o "' object has no attribute 'strip'"]
    ELSE [raised |-> FALSE, exc |-> "", val |-> Strip(value.s) /= ""]

\* LongerOf with > for >=: the second operand wins a tie.
LongerOf_strict(docling_value, pymupdf_value) ==
    IF Len(docling_value.s) > Len(pymupdf_value.s) THEN docling_value ELSE pymupdf_value

\* "docling_value if len(str(docling_value)) >= len(str(pymupdf_value)) else
\* pymupdf_value", reached only with two meaningful values, which are strs.
LongerOf(docling_value, pymupdf_value) ==
    IF Len(docling_value.s) >= Len(pymupdf_value.s) THEN docling_value ELSE pymupdf_value

\* The priority rules for one field; the operands of "and" and the elif
\* conditions are evaluated in the order written.
MergeField(field_name, docling_value, pymupdf_value) ==
    LET priority == FieldPriority(field_name)
        dm == is_meaningful_value(docling_value)
        pm == is_meaningful_value(pymupdf_value)
    IN  CASE priority = "docling" ->
               IF dm.raised THEN Exc(dm.exc)
               ELSE Val(IF dm.val THEN docling_value ELSE pymupdf_value)
          [] priority = "pymupdf" ->
               IF pm.raised THEN Exc(pm.exc)
               ELSE Val(IF pm.val THEN pymupdf_value ELSE docling_value)
          [] OTHER ->
               IF dm.raised THEN Exc(dm.exc)
               ELSE IF pm.raised THEN Exc(pm.exc)
               ELSE IF dm.val /\ pm.val THEN Val(LongerOf(docling_value, pymupdf_value))
               ELSE IF dm.val THEN Val(docling_value)
               ELSE IF pm.val THEN Val(pymupdf_value)
               ELSE Val(VNone)

\* "for field_name in docling_attr.__annotations__", from field i on.
RECURSIVE MergeFields(_, _, _, _, _)
MergeFields(s, i, docling_attr, pymupdf_attr, merged_attr) ==
    IF i > Len(FieldSeq("hybrid", s)) THEN [raised |-> FALSE, exc |-> "", sec |-> merged_attr]
    ELSE LET field_name == FieldSeq("hybrid", s)[i]
             r == MergeField(field_name, docling_attr.f[field_name],
                             IF pymupdf_attr.present THEN pymupdf_attr.f[field_name] ELSE VNone)
         IN  IF r.raised THEN [raised |-> TRUE, exc |-> r.exc, sec |-> merged_attr]
             ELSE MergeFields(s, i + 1, docling_attr, pymupdf_attr,
                              [merged_attr EXCEPT !.f[field_name] = r.val])

\* One iteration of "for attr_name in [...]": the merged section. The fields
\* are merged only under "if docling_attr:"; a section only pymupdf has gets
\* a new, empty instance.
MergeSection(s, docling_attr, pymupdf_attr) ==
    IF ~docling_attr.present /\ ~pymupdf_attr.present
    THEN [raised |-> FALSE, exc |-> "", sec |-> NoSection("hybrid", s)]
    ELSE IF docling_attr.present
    THEN MergeFields(s, 1, docling_attr, pymupdf_attr, NewSection("hybrid", s))
    ELSE [raised |-> FALSE, exc |-> "", sec |-> NewSection("hybrid", s)]

\* The loop over the sections, in the order of the list at line 608 (the
\* schema's order), from section i on.
RECURSIVE MergeSections(_, _, _, _)
MergeSections(i, docling_rec, pymupdf_rec, rec) ==
    IF i > Len(HybridSchema) THEN Return(rec)
    ELSE LET s == HybridSchema[i].name
             r == MergeSection(s, docling_rec.sec[s], pymupdf_rec.sec[s])
         IN  IF r.raised THEN Raise("hybrid", r.exc)
             ELSE MergeSections(i + 1, docling_rec, pymupdf_rec, [rec EXCEPT !.sec[s] = r.sec])

\* ErrorBranch with the two elif bodies exchanged.
ErrorBranch_swapped(docling_rec, pymupdf_rec) ==
    IF Truthy(docling_rec.error) /\ Truthy(pymupdf_rec.error) THEN "both"
    ELSE IF Truthy(docling_rec.error) THEN "use_docling"
    ELSE IF Truthy(pymupdf_rec.error) THEN "use_pymupdf"
    ELSE "merge"

\* The "Handle errors" if/elif chain: which branch is taken.
ErrorBranch(docling_rec, pymupdf_rec) ==
    IF Truthy(docling_rec.error) /\ Truthy(pymupdf_rec.error) THEN "both"
    ELSE IF Truthy(docling_rec.error) THEN "use_pymupdf"
    ELSE IF Truthy(pymupdf_rec.error) THEN "use_docling"
    ELSE "merge"

\* BothFailedMessage naming only the first error.
BothFailedMessage_firstOnly(docling_rec, pymupdf_rec) ==
    "Both methods failed: Docling: " \o docling_rec.error.s

\* f"Both methods failed: Docling: {...error}, PyMuPDF: {...error}"
BothFailedMessage(docling_rec, pymupdf_rec) ==
    "Both methods failed: Docling: " \o docling_rec.error.s
        \o ", PyMuPDF: " \o pymupdf_rec.error.s

\* 'merged = pymupdf_result; merged.extraction_method = "pymupdf_only"' and
\* its Docling twin: the surviving record with its final tag.
UseOnly_untagged(rec, tag) == rec

UseOnly(rec, tag) == [rec EXCEPT !.extraction_method = VStr(tag)]

\* merge_extraction_results. In the two one-sided branches "merged" is the
\* error-free input object itself, so setting its extraction_method also
\* changes that input: the result carries what the call returned (out) and
\* the two input objects as they are afterwards.
merge_extraction_results(docling_rec, pymupdf_rec, name) ==
    LET start == [ExtractedData("hybrid") EXCEPT !.filename = VStr(name),
                                                 !.extraction_method = VStr("hybrid")]
        branch == ErrorBranch(docling_rec, pymupdf_rec)
        tagged_p == UseOnly(pymupdf_rec, "pymupdf_only")
        tagged_d == UseOnly(docling_rec, "docling_only")
    IN  CASE branch = "both" ->
               [out |-> Return([start EXCEPT
                                  !.error = VStr(BothFailedMessage(docling_rec, pymupdf_rec))]),
                docling |-> docling_rec, pymupdf |-> pymupdf_rec, same_as |-> "none"]
          [] branch = "use_pymupdf" ->
               [out |-> Return(tagged_p),
                docling |-> docling_rec, pymupdf |-> tagged_p, same_as |-> "pymupdf"]
          [] branch = "use_docling" ->
               [out |-> Return(tagged_d),
                docling |-> tagged_d, pymupdf |-> pymupdf_rec, same_as |-> "docling"]
          [] OTHER ->
               [out |-> MergeSections(1, docling_rec, pymupdf_rec, start),
                docling |-> docling_rec, pymupdf |-> pymupdf_rec, same_as |-> "none"]

----------------------------------------------------------------------------
(* ExtractedData.to_dict *)

HybridColumns == <<
    [section |-> "identification",
     columns |-> <<[key |-> "title", field |-> "title"],
                  [key |-> "lead_author", field |-> "lead_author"],
                  [key |-> "year", field |-> "year"],
                  [key |-> "journal", field |-> "journal"],
                  [key |-> "doi", field |-> "doi"],
                  [key |-> "country", field |-> "country"]>>],
    [section |-> "characteristics",
     columns |-> <<[key |-> "study_aim", field |-> "study_aim"],
                  [key |-> "followup_duration", field |-> "followup_duration"],
                  [key |-> "multisite_study", field |-> "multisite_study"]>>],
    [section |-> "participants",
     columns |-> <<[key |-> "clinical_population", field |-> "clinical_population"],
                  [key |-> "n_patient_group", field |-> "n_patient_group"],
                  [key |-> "n_control_group", field |-> "n_control_group"],
                  [key |-> "n_overall", field |-> "n_overall"],
                  [key |-> "mean_age_patient", field |-> "mean_age_patient"],
                  [key |-> "sd_age_patient", field |-> "sd_age_patient"],
                  [key |-> "mean_age_control", field |-> "mean_age_control"],
                  [key |-> "sd_age_control", field |-> "sd_age_control"],
                  [key |-> "age_range_patient", field |-> "age_range_patient"],
                  [key |-> "age_range_control", field |-> "age_range_control"],
                  [key |-> "gender_distribution_patient", field |-> "gender_distribution_patient"],
                  [key |-> "gender_distribution_control", field |-> "gender_distribution_control"]>>],
    [section |-> "mri_acquisition",
     columns |-> <<[key |-> "scanner_strength", field |-> "scanner_strength"],
                  [key |-> "scanner_manufacturer", field |-> "scanner_manufacturer"],
                  [key |-> "b_values", field |-> "b_values"],
                  [key |-> "gradient_directions", field |-> "gradient_directions"],
                  [key |-> "reverse_phase_encoding", field |-> "reverse_phase_encoding"],
                  [key |-> "voxel_size", field |-> "voxel_size"],
                  [key |-> "tr", field |-> "tr"],
                  [key |-> "te", field |-> "te"],
                  [key |-> "acquisition_time", field |-> "acquisition_time"]>>],
    [section |-> "analysis_methods",
     columns |-> <<[key |-> "preprocessing_steps", field |-> "preprocessing_steps"],
                  [key |-> "analysis_software", field |-> "analysis_software"],
                  [key |-> "analysis_approach", field |-> "analysis_approach"],
                  [key |-> "free_water_method", field |-> "free_water_method"],
                  [key |-> "regions_analyzed", field |-> "regions_analyzed"],
                  [key |-> "free_water_metrics_reported", field |-> "free_water_metrics_reported"],
                  [key |-> "if_atlas_name_of_atlas", field |-> "if_atlas_name_of_atlas"],
                  [key |-> "ROI_definition_method", field |-> "roi_definition_method"]>>],
    [section |-> "free_water_results",
     columns |-> <<[key |-> "clinical_group_fw_values", field |-> "clinical_group_fw_values"],
                  [key |-> "control_group_fw_values", field |-> "control_group_fw_values"],
                  [key |-> "group_comparison_p_value", field |-> "group_comparison_p_value"]>>],
    [section |-> "correlations",
     columns |-> <<[key |-> "correlations_reported", field |-> "correlations_reported"],
                  [key |-> "correlation_coefficients", field |-> "correlation_coefficients"]>>],
    [section |-> "key_findings",
     columns |-> <<[key |-> "longitudinal_data_available", field |-> "longitudinal_data_available"],
                  [key |-> "longitudinal_data_results", field |-> "longitudinal_data_results"],
                  [key |-> "primary_finding", field |-> "primary_finding"],
                  [key |-> "main_interpretation", field |-> "main_interpretation"],
                  [key |-> "key_limitations", field |-> "key_limitations"],
                  [key |-> "other_measures", field |-> "other_measures"]>>] >>

GeminiColumns == <<
    [section |-> "identification",
     columns |-> <<[key |-> "title", field |-> "title"],
                  [key |-> "lead_author", field |-> "lead_author"],
                  [key |-> "year", field |-> "year"],
                  [key |-> "journal", field |-> "journal"],
                  [key |-> "doi", field |-> "doi"],
                  [key |-> "country", field |-> "country"]>>],
    [section |-> "characteristics",
     columns |-> <<[key |-> "study_aim", field |-> "study_aim"],
                  [key |-> "study_design", field |-> "study_design"],
                  [key |-> "followup_duration", field |-> "followup_duration"],
                  [key |-> "multisite_study", field |-> "multisite_study"]>>],
    [section |-> "participants",
     columns |-> <<[key |-> "clinical_population", field |-> "clinical_population"],
                  [key |-> "diagnosis", field |-> "diagnosis"],
                  [key |-> "disease_duration", field |-> "disease_duration"],
                  [key |-> "severity_scale", field |-> "severity_scale"],
                  [key |-> "clinical_scores", field |-> "clinical_scores"],
                  [key |-> "control_group", field |-> "control_group"],
                  [key |-> "total_participants", field |-> "total_participants"]>>],
    [section |-> "mri_acquisition",
     columns |-> <<[key |-> "field_strength", field |-> "field_strength"],
                  [key |-> "manufacturer", field |-> "manufacturer"],
                  [key |-> "b_values", field |-> "b_values"],
                  [key |-> "num_b_shells", field |-> "num_b_shells"],
                  [key |-> "gradient_directions", field |-> "gradient_directions"],
                  [key |-> "reverse_phase_encoding", field |-> "reverse_phase_encoding"],
                  [key |-> "voxel_size", field |-> "voxel_size"],
                  [key |-> "tr", field |-> "tr"],
                  [key |-> "te", field |-> "te"],
                  [key |-> "acquisition_time", field |-> "acquisition_time"]>>],
    [section |-> "analysis_methods",
     columns |-> <<[key |-> "preprocessing", field |-> "preprocessing"],
                  [key |-> "analysis_software", field |-> "analysis_software"],
                  [key |-> "free_water_method", field |-> "free_water_method"],
                  [key |-> "free_water_metrics", field |-> "free_water_metrics"],
                  [key |-> "analysis_approach", field |-> "analysis_approach"],
                  [key |-> "tissue_analyzed", field |-> "tissue_analyzed"],
                  [key |-> "regions_analyzed", field |-> "regions_analyzed"]>>],
    [section |-> "statistical_analysis",
     columns |-> <<[key |-> "multiple_comparison_correction", field |-> "multiple_comparison_correction"]>>],
    [section |-> "free_water_results",
     columns |-> <<[key |-> "clinical_group_fw_values", field |-> "clinical_group_fw_values"],
                  [key |-> "control_group_fw_values", field |-> "control_group_fw_values"],
                  [key |-> "group_comparison_p_value", field |-> "group_comparison_p_value"]>>],
    [section |-> "associations",
     columns |-> <<[key |-> "clinical_measure_associations", field |-> "clinical_measure_associations"],
                  [key |-> "measure_name", field |-> "measure_name"],
                  [key |-> "association_type", field |-> "association_type"],
                  [key |-> "association_statistics", field |-> "association_statistics"]>>],
    [section |-> "biomarkers",
     columns |-> <<[key |-> "biomarker_measured", field |-> "biomarker_measured"],
                  [key |-> "biomarker_details", field |-> "biomarker_details"],
                  [key |-> "biomarker_associations", field |-> "biomarker_associations"]>>],
    [section |-> "key_findings",
     columns |-> <<[key |-> "primary_finding", field |-> "primary_finding"],
                  [key |-> "main_interpretation", field |-> "main_interpretation"],
                  [key |-> "key_limitations", field |-> "key_limitations"],
                  [key |-> "other_measures", field |-> "other_measures"]>>] >>

Columns(v) == IF v = "hybrid" THEN HybridColumns ELSE GeminiColumns

\* result.update({...}): a key already in result keeps its place and takes the
\* new value; the other keys are appended in the order of the argument. A key
\* written twice in the argument holds its last value.
DictUpdate(result, pairs) ==
    LET Last(key) == pairs[CHOOSE i \in 1..Len(pairs) :
                              /\ pairs[i].k = key
                              /\ \A i2 \in (i + 1)..Len(pairs) : pairs[i2].k /= key].v
        kept == [j \in 1..Len(result) |->
                    IF \E i \in 1..Len(pairs) : pairs[i].k = result[j].k
                    THEN [k |-> result[j].k, v |-> Last(result[j].k)]
                    ELSE result[j]]
        firsts == {i \in 1..Len(pairs) :
                      /\ \A j \in 1..Len(result) : result[j].k /= pairs[i].k
                      /\ \A i2 \in 1..(i - 1) : pairs[i2].k /= pairs[i].k}
        Nth(n) == CHOOSE i \in firsts : Cardinality({x \in firsts : x < i}) = n - 1
    IN  kept \o [n \in 1..Cardinality(firsts) |->
                    [k |-> pairs[Nth(n)].k, v |-> Last(pairs[Nth(n)].k)]]

\* The dict literal of block i of to_dict: its keys with the section's fields.
SectionColumns(v, rec, i) ==
    LET block == Columns(v)[i]
    IN  [j \in 1..Len(block.columns) |->
            [k |-> block.columns[j].key,
             v |-> rec.sec[block.section].f[block.columns[j].field]]]

\* ToDictBlocks with the "if self.<section>:" tests dropped: the columns of an
\* absent section are written, holding None.
RECURSIVE ToDictBlocks_unguarded(_, _, _, _)
ToDictBlocks_unguarded(v, rec, i, result) ==
    IF i > Len(Columns(v)) THEN result
    ELSE ToDictBlocks_unguarded(v, rec, i + 1, DictUpdate(result, SectionColumns(v, rec, i)))

\* The "if self.<section>: result.update({...})" blocks from block i on.
RECURSIVE ToDictBlocks(_, _, _, _)
ToDictBlocks(v, rec, i, result) ==
    IF i > Len(Columns(v)) THEN result
    ELSE ToDictBlocks(v, rec, i + 1,
             IF rec.sec[Columns(v)[i].section].present
             THEN DictUpdate(result, SectionColumns(v, rec, i))
             ELSE result)

\* HasError with the test dropped: to_dict never returns early.
HasError_never(rec) == FALSE

\* "if self.error:"
HasError(rec) == Truthy(rec.error)

\* to_dict: the row as the dict's items in insertion order.
to_dict(v, rec) ==
    LET result == IF v = "hybrid"
                  THEN <<[k |-> "filename", v |-> rec.filename],
                         [k |-> "extraction_method", v |-> rec.extraction_method]>>
                  ELSE <<[k |-> "filename", v |-> rec.filename]>>
    IN  IF HasError(rec) THEN DictSet(result, "error", rec.error)
        ELSE ToDictBlocks(v, rec, 1, result)

----------------------------------------------------------------------------
(* Inputs: what the language model may answer *)

\* json.dumps with its default separators; a dict's pairs are written as
\* given, so a document may repeat a key.
RECURSIVE JsonDumps(_)
RECURSIVE DumpItems(_, _, _)
DumpItems(kv, keyed, i) ==
    IF i > Len(kv) THEN ""
    ELSE (IF i > 1 THEN ", " ELSE "")
         \o (IF keyed THEN "\"" \o kv[i].k \o "\": " ELSE "")
         \o JsonDumps(kv[i].v) \o DumpItems(kv, keyed, i + 1)
JsonDumps(v) ==
    CASE v.t = "none" -> "null"
      [] v.t = "str"  -> "\"" \o v.s \o "\""
      [] v.t \in {"num", "bool"} -> v.s
      [] v.t = "list" -> "[" \o DumpItems(v.kv, FALSE, 1) \o "]"
      [] OTHER        -> "{" \o DumpItems(v.kv, TRUE, 1) \o "}"

\* How many further key/value pairs follow the first in a generated object.
MaxExtraKeys == 1
\* How many lines a generated line-oriented answer has.
MaxLines == 2

\* Keys tried in generated objects: schema fields of both scripts, of one
\* script only, a flattened column name, a section name, a label, a stranger.
ProbeKeys == {"title", "study_aim", "scanner_strength", "field_strength",
              "ROI_definition_method", "identification", "Title", "foo"}

\* Values of every JSON type, empty and not.
ProbeValues == {VStr("3T"), VStr(""), VStr("Not reported"), VNone, VNum("5"), VNum("0"),
                VBool(TRUE), VList(<<>>), VList(<<VStr("a"), VNum("1")>>),
                VDict(<<[k |-> "title", v |-> VStr("X")]>>)}

FirstPairs(v) == {[k |-> key, v |-> val] : key \in ProbeKeys, val \in ProbeValues}
                 \cup {[k |-> key, v |-> VStr("v")] : key \in AllFields(v)}

ExtraPairs == {[k |-> "title", v |-> VStr("Y")], [k |-> "foo", v |-> VStr("z")],
               [k |-> "study_aim", v |-> VNum("7")]}

RECURSIVE SeqsUpTo(_, _)
SeqsUpTo(S, n) ==
    IF n = 0 THEN {<<>>}
    ELSE LET shorter == SeqsUpTo(S, n - 1)
         IN  shorter \cup {Append(q, x) : q \in shorter, x \in S}

\* The JSON documents the model may answer with: objects, and every other type.
JsonDocuments(v) ==
    {VDict(<<>>)}
    \cup {VDict(<<p>> \o rest) : p \in FirstPairs(v), rest \in SeqsUpTo(ExtraPairs, MaxExtraKeys)}
    \cup (ProbeValues \ {VDict(<<[k |-> "title", v |-> VStr("X")]>>)})

\* A document as bare text, in a json code fence, in a plain fence, padded.
Fenced(x) == {x,
              Backtick \o Backtick \o Backtick \o "json\n" \o x \o "\n" \o Backtick \o Backtick \o Backtick,
              Backtick \o Backtick \o Backtick \o "\n" \o x \o "\n" \o Backtick \o Backtick \o Backtick,
              " " \o x \o "\n"}

\* Objects whose keys and values are made of the characters of the fence
\* marker and its tag, in a json fence with and without line breaks.
FenceProbes ==
    {Backtick \o Backtick \o Backtick \o "json" \o sep \o x \o sep \o Backtick \o Backtick \o Backtick :
        sep \in {"", "\n"},
        x \in {"{\"json\": \"son\"}",
               "{\"title\": \"" \o Backtick \o Backtick \o Backtick \o "json\"}",
               "{\"n\": \"" \o Backtick \o "\", \"title\": \"no\"}",
               "{}"}}

JsonTexts(v) == UNION {Fenced(JsonDumps(d)) : d \in JsonDocuments(v)} \cup FenceProbes

LinePrefixes == {"- ", "-", "", " - ", "-\t", "* ", "**", "--- "}
ProbeLabels == {"Title", "Aim", "Aim of study", "Study aim", "title", "Foo", ""}
LineSeparators == {": ", ":", " : "}
LineValues == {"v", " w ", "a: b", ""}

AllLabels(v) == UNION {Range(Labels(v)[i].labels) : i \in 1..Len(Labels(v))}

\* One line of an answer: every prefix and every separator and value around
\* the probe labels, and every label of the script's table in the prompt's form.
FirstLines(v) ==
    {p \o l \o ": v" : p \in LinePrefixes, l \in ProbeLabels}
    \cup {"- " \o l \o sep \o val : l \in ProbeLabels, sep \in LineSeparators,
                                    val \in LineValues}
    \cup {"- " \o l \o ": v" : l \in AllLabels(v)}

FollowLines == {"- Title: second", "- Aim: second", "", "**STUDY**", "- Foo: x"}

RECURSIVE JoinLines(_)
JoinLines(lines) ==
    IF Len(lines) = 1 THEN lines[1] ELSE Head(lines) \o "\n" \o JoinLines(Tail(lines))

LineTexts(v) ==
    {JoinLines(<<l>> \o rest) : l \in FirstLines(v), rest \in SeqsUpTo(FollowLines, MaxLines - 1)}
    \cup {JoinLines(<<f, l>>) : f \in FollowLines, l \in FirstLines(v)}

\* Answers that are neither: truncated or prefixed JSON, bare words, blanks.
OddTexts == {"{\"title\": \"X\"", "Here is the data: {\"title\": \"X\"}", "n5", "json",
             "son[1]", "  ", "\n", "Not reported", "{\"title\": \"X\"}\n- Title: Y",
             Backtick \o Backtick \o Backtick \o "json" \o Backtick \o Backtick \o Backtick}

ResponseTexts(v) == JsonTexts(v) \cup LineTexts(v) \cup OddTexts

\* Every outcome of the model call.
Responses(v) ==
    {[kind |-> "text", text |-> t] : t \in ResponseTexts(v) \cup {""}}
    \cup {[kind |-> k, text |-> m] : k \in {"transport_error", "text_raises"},
                                     m \in {"timeout", "quota exceeded"}}
    \cup {[kind |-> "no_text", text |-> ""]}

AiModels == {"gemini", "claude", "llama"}

\* The outcomes tried with the other settings of AI_MODEL.
OtherModelResponses ==
    {[kind |-> "text", text |-> t] : t \in OddTexts \cup {"", "{\"title\": \"X\"}", "- Title: X", "[1]"}}
    \cup {[kind |-> k, text |-> "timeout"] : k \in {"transport_error", "text_raises"}}
    \cup {[kind |-> "no_text", text |-> ""]}

\* Decoded values parse_json_response may be handed.
DecodedInputs(v) == {JsonLoads(JsonDumps(d)).v : d \in JsonDocuments(v)}

----------------------------------------------------------------------------
(* The parser entry points applied to every input *)

NoOutcome == [raised |-> FALSE, exc |-> "not called", rec |-> ExtractedData("hybrid")]
NoResponse == [kind |-> "none", text |-> ""]

\* No output file written; no checkpoint file.
NotWritten == [written |-> FALSE, columns |-> <<>>, rows |-> <<>>]
NoFile == [exists |-> FALSE, text |-> ""]

FlattenIdle ==
    /\ record = ExtractedData("hybrid")
    /\ row = <<>>

MainIdle ==
    /\ files_to_process = <<>>
    /\ loop_i = 0
    /\ all_results = <<>>
    /\ output_csv = NotWritten
    /\ progress_file = NoFile
    /\ model_calls = <<>>
    /\ documents = <<>>
    /\ remaining_files = <<>>
    /\ checkpointed = <<>>
    /\ resumed_from = <<>>

MergeIdle ==
    /\ docling_result = ExtractedData("hybrid")
    /\ pymupdf_result = ExtractedData("hybrid")
    /\ filename = ""
    /\ merged = NoOutcome

ParserInit ==
    /\ pc = "call"
    /\ outcome = NoOutcome
    /\ MergeIdle
    /\ FlattenIdle
    /\ MainIdle
    /\ variant \in Variants
    /\ \/ /\ op = "extract"
          /\ ai_model = "gemini"
          /\ response \in Responses(variant)
          /\ json_in = VNone
       \/ /\ op = "extract"
          /\ variant = "hybrid"
          /\ ai_model \in AiModels \ {"gemini"}
          /\ response \in OtherModelResponses
          /\ json_in = VNone
       \/ /\ op = "parse_structured_response"
          /\ ai_model = "gemini"
          /\ response \in {[kind |-> "text", text |-> t] : t \in ResponseTexts(variant)}
          /\ json_in = VNone
       \/ /\ op = "parse_json_response"
          /\ ai_model = "gemini"
          /\ response = NoResponse
          /\ json_in \in DecodedInputs(variant)

ExtractDataWithAi ==
    /\ pc = "call" /\ op = "extract" /\ variant = "hybrid"
    /\ outcome' = extract_data_with_ai(ai_model, response)
    /\ pc' = "return"
    /\ UNCHANGED <<op, variant, ai_model, response, json_in,
                   docling_result, pymupdf_result, filename, merged,
                   flatVars, mainVars>>

ExtractDataWithGemini ==
    /\ pc = "call" /\ op = "extract" /\ variant = "gemini"
    /\ outcome' = extract_data_with_gemini(response)
    /\ pc' = "return"
    /\ UNCHANGED <<op, variant, ai_model, response, json_in,
                   docling_result, pymupdf_result, filename, merged,
                   flatVars, mainVars>>

ParseJsonResponse ==
    /\ pc = "call" /\ op = "parse_json_response"
    /\ outcome' = parse_json_response(variant, json_in)
    /\ pc' = "return"
    /\ UNCHANGED <<op, variant, ai_model, response, json_in,
                   docling_result, pymupdf_result, filename, merged,
                   flatVars, mainVars>>

ParseStructuredResponse ==
    /\ pc = "call" /\ op = "parse_structured_response"
    /\ outcome' = parse_structured_response(variant, response.text)
    /\ pc' = "return"
    /\ UNCHANGED <<op, variant, ai_model, response, json_in,
                   docling_result, pymupdf_result, filename, merged,
                   flatVars, mainVars>>

ParserNext ==
    \/ ExtractDataWithAi
    \/ ExtractDataWithGemini
    \/ ParseJsonResponse
    \/ ParseStructuredResponse

SpecParser == ParserInit /\ [][ParserNext]_vars

----------------------------------------------------------------------------
(* The merge: merge_extraction_results called on two pipeline records *)

MaxValueLen == 2

RECURSIVE Repeat(_, _)
Repeat(c, k) == IF k = 0 THEN "" ELSE c \o Repeat(c, k - 1)

\* A dataclass field holds None, a str (from either parser), or whatever else
\* a JSON document had at that key (parse_json_response stores it as it is).
StringValues ==
    {VStr(""), VStr(" "), VStr("NR"), VStr("Not reported"), VStr("3T")}
        \cup {VStr(Repeat(c, k)) : c \in {"a", "b"}, k \in 1..MaxValueLen}
OtherValues ==
    {VNum("0"), VNum("5"), VBool(FALSE), VBool(TRUE),
     VList(<<>>), VList(<<VStr("a")>>), VDict(<<>>)}
FewValues == {VNone, VStr("NR"), VStr("a"), VStr("bb")}
\* What the two records hold in the same field.
ValuePairs ==
    (({VNone} \cup StringValues) \X ({VNone} \cup StringValues))
        \cup (OtherValues \X FewValues) \cup (FewValues \X OtherValues)

SectionOf(v, field_name) == CHOOSE s \in SectionNames(v) : field_name \in SectionFields(v, s)

\* The record a parser returns (every section built), one field given a
\* value, after extract_data_hybrid has set its extraction_method.
AllNone == RecordOf("hybrid", [s \in SectionNames("hybrid") |-> NewSection("hybrid", s)])
ParsedRecord(field_name, value, method) ==
    [AllNone EXCEPT !.extraction_method = VStr(method),
                    !.sec[SectionOf("hybrid", field_name)].f[field_name] = value]

\* The same record with one section attribute None, as a caller that builds
\* ExtractedData itself may pass.
WithoutSection(rec, s) == [rec EXCEPT !.sec[s] = NoSection("hybrid", s)]

\* FailedRecord built without its error argument.
FailedRecord_errorUnset(msg, method) ==
    [ExtractedData("hybrid") EXCEPT !.extraction_method = VStr(method)]

\* ExtractedData(error=status, extraction_method=...) of extract_data_hybrid,
\* and the error record of extract_data_with_ai after its tag is set.
FailedRecord(msg, method) ==
    [ErrorRecord("hybrid", msg) EXCEPT !.extraction_method = VStr(method)]

DoclingFailures ==
    {FailedRecord("Error with Docling extraction: e", "docling_failed"),
     FailedRecord("An unexpected AI API error occurred: e", "docling")}
PymupdfFailures ==
    {FailedRecord("Error with PyMuPDF extraction: e", "pymupdf_failed"),
     FailedRecord("Success", "pymupdf_failed"),
     FailedRecord("An unexpected AI API error occurred: e", "pymupdf")}

Filenames == {"a.pdf", "b.pdf"}

ParserIdle ==
    /\ variant = "hybrid"
    /\ ai_model = "gemini"
    /\ response = NoResponse
    /\ json_in = VNone
    /\ outcome = NoOutcome

MergeInit ==
    /\ pc = "call"
    /\ op = "merge_extraction_results"
    /\ ParserIdle
    /\ FlattenIdle
    /\ MainIdle
    /\ merged = NoOutcome
    /\ filename \in Filenames
    /\ \/ \E field_name \in AllFields("hybrid"), pair \in ValuePairs :
            /\ docling_result = ParsedRecord(field_name, pair[1], "docling")
            /\ pymupdf_result = ParsedRecord(field_name, pair[2], "pymupdf")
       \/ \E field_name \in AllFields("hybrid"), dv \in FewValues, pv \in FewValues,
             d_has \in BOOLEAN, p_has \in BOOLEAN :
            LET s == SectionOf("hybrid", field_name)
                d == ParsedRecord(field_name, dv, "docling")
                p == ParsedRecord(field_name, pv, "pymupdf")
            IN  /\ ~(d_has /\ p_has)
                /\ docling_result = IF d_has THEN d ELSE WithoutSection(d, s)
                /\ pymupdf_result = IF p_has THEN p ELSE WithoutSection(p, s)
       \/ \E field_name \in AllFields("hybrid"), value \in FewValues :
            \/ /\ docling_result \in DoclingFailures
               /\ pymupdf_result = ParsedRecord(field_name, value, "pymupdf")
            \/ /\ docling_result = ParsedRecord(field_name, value, "docling")
               /\ pymupdf_result \in PymupdfFailures
       \/ /\ docling_result \in DoclingFailures
          /\ pymupdf_result \in PymupdfFailures

MergeExtractionResults ==
    /\ pc = "call" /\ op = "merge_extraction_results"
    /\ \E r \in {merge_extraction_results(docling_result, pymupdf_result, filename)} :
           /\ merged' = r.out
           /\ docling_result' = r.docling
           /\ pymupdf_result' = r.pymupdf
    /\ pc' = "return"
    /\ UNCHANGED <<op, variant, ai_model, response, json_in, outcome, filename,
                   flatVars, mainVars>>

MergeNext == MergeExtractionResults

SpecMerge == MergeInit /\ [][MergeNext]_vars

----------------------------------------------------------------------------
(* The flattener: to_dict called on a record; and the merge called on *)
(* records that carry an error                                        *)

\* A record with every section built and every field holding a string that
\* names the pipeline (tag) and the field.
FullRecord(v, tag) ==
    RecordOf(v, [s \in SectionNames(v) |->
                    [present |-> TRUE,
                     f |-> [x \in SectionFields(v, s) |-> VStr(tag \o ":" \o x)]]])

\* A record with every section built and one field set.
RecordWith(v, field_name, value) ==
    RecordOf(v, [s \in SectionNames(v) |->
                    IF field_name \in SectionFields(v, s)
                    THEN [NewSection(v, s) EXCEPT !.f[field_name] = value]
                    ELSE NewSection(v, s)])

\* rec with only the sections in keep; the others None.
KeepSections(v, rec, keep) ==
    [rec EXCEPT !.sec = [s \in SectionNames(v) |->
                            IF s \in keep THEN rec.sec[s] ELSE NoSection(v, s)]]

\* Which sections a record has: all, all but one, one, none.
SectionSets(v) ==
    {SectionNames(v), {}}
        \cup {SectionNames(v) \ {s} : s \in SectionNames(v)}
        \cup {{s} : s \in SectionNames(v)}

RecordShapes(v) ==
    {KeepSections(v, FullRecord(v, "r"), keep) : keep \in SectionSets(v)}
        \cup {RecordWith(v, field_name, value) :
                 field_name \in AllFields(v), value \in {VStr("a"), VNum("5")}}

MethodTags(v) == IF v = "hybrid" THEN {VStr("hybrid"), VStr("docling_only")} ELSE {VNone}

\* The records to_dict is called on: any shape, with or without an error,
\* with the filename the main loop has set.
FlattenRecords(v) ==
    {[shape EXCEPT !.filename = VStr("a.pdf"), !.error = e, !.extraction_method = tag] :
        shape \in RecordShapes(v), tag \in MethodTags(v),
        e \in {VNone, VStr("Error reading PDF: e")}}

\* A pipeline record that carries an error although its sections are built.
ErroredFull(tag, method) ==
    [FullRecord("hybrid", tag) EXCEPT !.error = VStr("failed: " \o tag),
                                      !.extraction_method = VStr(method)]
GoodFull(tag, method) ==
    [FullRecord("hybrid", tag) EXCEPT !.extraction_method = VStr(method)]

FlattenInit ==
    /\ pc = "call"
    /\ ai_model = "gemini"
    /\ response = NoResponse
    /\ json_in = VNone
    /\ outcome = NoOutcome
    /\ merged = NoOutcome
    /\ row = <<>>
    /\ MainIdle
    /\ \/ /\ op = "to_dict"
          /\ variant \in Variants
          /\ record \in FlattenRecords(variant)
          /\ docling_result = ExtractedData("hybrid")
          /\ pymupdf_result = ExtractedData("hybrid")
          /\ filename = ""
       \/ /\ op = "merge_extraction_results"
          /\ variant = "hybrid"
          /\ record = ExtractedData("hybrid")
          /\ filename \in Filenames
          /\ docling_result \in {ErroredFull("d", "docling"), GoodFull("d", "docling")}
                                   \cup DoclingFailures
          /\ pymupdf_result \in {ErroredFull("p", "pymupdf"), GoodFull("p", "pymupdf")}
                                   \cup PymupdfFailures

ToDict ==
    /\ pc = "call" /\ op = "to_dict"
    /\ row' = to_dict(variant, record)
    /\ pc' = "return"
    /\ UNCHANGED <<op, variant, ai_model, response, json_in, outcome,
                   docling_result, pymupdf_result, filename, merged, record, mainVars>>

FlattenNext ==
    \/ ToDict
    \/ MergeExtractionResults

SpecFlatten == FlattenInit /\ [][FlattenNext]_vars

----------------------------------------------------------------------------
(* Text extraction and the per-document processing of the two extraction *)
(* scripts                                                               *)

\* What opening and reading a PDF does: it raises (msg is str(e)), or yields a
\* text of chars characters other than surrounding whitespace and blanks
\* characters of surrounding whitespace.
Unreadable(msg) == [raised |-> TRUE, msg |-> msg, chars |-> 0, blanks |-> 0]
Readable(chars, blanks) == [raised |-> FALSE, msg |-> "", chars |-> chars, blanks |-> blanks]

\* bool(text) for an extracted text; None, when reading raised, is falsy.
HasText_always(read) == TRUE

HasText(read) == ~read.raised /\ read.chars + read.blanks > 0

\* extract_text_from_pdf (gemini script): (text, "Success"), or
\* (None, "Error reading PDF: ...").
extract_text_from_pdf(read) ==
    IF read.raised THEN [text |-> read, status |-> "Error reading PDF: " \o read.msg]
    ELSE [text |-> read, status |-> "Success"]

\* extract_text_from_pdf_pymupdf (hybrid script)
extract_text_from_pdf_pymupdf(read) ==
    IF read.raised THEN [text |-> read, status |-> "Error with PyMuPDF extraction: " \o read.msg]
    ELSE [text |-> read, status |-> "Success"]

\* extract_with_docling: (markdown_text, table_data, "Success") with
\* table_data a str, or (None, None, "Error with Docling extraction: ...").
extract_with_docling(read) ==
    IF read.raised THEN [text |-> read, status |-> "Error with Docling extraction: " \o read.msg]
    ELSE [text |-> read, status |-> "Success"]

\* extract_data_hybrid, step 1: the Docling pipeline's record, and whether
\* the language model was called for it.
DoclingPipeline(doc, model) ==
    LET e == extract_with_docling(doc.docling)
    IN  IF HasText(e.text)
        THEN [out |-> extract_data_with_ai(model, doc.docling_reply), tag |-> "docling",
              called |-> model \in {"gemini", "claude"}]
        ELSE [out |-> Return(FailedRecord(e.status, "docling_failed")), tag |-> "docling_failed",
              called |-> FALSE]

\* extract_data_hybrid, step 2: the PyMuPDF pipeline.
PymupdfPipeline(doc, model) ==
    LET e == extract_text_from_pdf_pymupdf(doc.text)
    IN  IF HasText(e.text)
        THEN [out |-> extract_data_with_ai(model, doc.reply), tag |-> "pymupdf",
              called |-> model \in {"gemini", "claude"}]
        ELSE [out |-> Return(FailedRecord(e.status, "pymupdf_failed")), tag |-> "pymupdf_failed",
              called |-> FALSE]

\* The calls a pipeline step made.
CallsOf(step, name, method) ==
    IF step.called THEN <<[filename |-> name, method |-> method]>> ELSE <<>>

\* "docling_result.extraction_method = ..." after a pipeline step.
PipelineRecord(step) == [step.out.rec EXCEPT !.extraction_method = VStr(step.tag)]

\* extract_data_hybrid, step 3, for the steps d and p and the merge m of
\* their records: "final_result.filename = filename", or the exception that
\* ended the function.
FinalResult(d, p, m, name) ==
    [out |-> IF d.out.raised THEN d.out
             ELSE IF p.out.raised THEN p.out
             ELSE IF m.out.raised THEN m.out
             ELSE Return([m.out.rec EXCEPT !.filename = VStr(name)]),
     docling |-> IF d.out.raised \/ p.out.raised THEN PipelineRecord(d)
                 ELSE IF m.same_as = "docling" THEN [m.docling EXCEPT !.filename = VStr(name)]
                 ELSE m.docling,
     pymupdf |-> IF d.out.raised \/ p.out.raised THEN PipelineRecord(p)
                 ELSE IF m.same_as = "pymupdf" THEN [m.pymupdf EXCEPT !.filename = VStr(name)]
                 ELSE m.pymupdf,
     calls |-> IF d.out.raised THEN CallsOf(d, name, "docling")
               ELSE CallsOf(d, name, "docling") \o CallsOf(p, name, "pymupdf")]

MergePipelines(d, p, name) ==
    FinalResult(d, p, merge_extraction_results(PipelineRecord(d), PipelineRecord(p), name), name)

\* extract_data_hybrid: what it returns or raises, its docling_result and
\* pymupdf_result as they are at the end, and the model calls it made.
extract_data_hybrid(doc, model, name) ==
    MergePipelines(DoclingPipeline(doc, model), PymupdfPipeline(doc, model), name)

\* The gemini script's "extracted_data.filename = filename" on what
\* extract_data_with_gemini gave.
Named(x, name) == IF x.raised THEN x ELSE Return([x.rec EXCEPT !.filename = VStr(name)])

\* The loop body of the gemini script for a file that exists: the record it
\* appends (or the exception), and the model calls made.
GeminiDocument(doc, name) ==
    IF HasText(doc.text)
    THEN [out |-> Named(extract_data_with_gemini(doc.reply), name),
          calls |-> <<[filename |-> name, method |-> "gemini"]>>]
    ELSE [out |-> Return([ExtractedData("gemini") EXCEPT
                              !.filename = VStr(name),
                              !.error = VStr(extract_text_from_pdf(doc.text).status)]),
          calls |-> <<>>]

----------------------------------------------------------------------------
(* The screening script: one document *)

\* dict membership and dict.get on a dict's items.
DictHas(pairs, key) == \E i \in 1..Len(pairs) : pairs[i].k = key
DictGet(pairs, key, default) ==
    IF DictHas(pairs, key)
    THEN pairs[CHOOSE i \in 1..Len(pairs) : pairs[i].k = key].v
    ELSE default

\* repr(float(literal)) for a decimal literal: trailing zeros of the fraction
\* go, one fraction digit stays. Exponent forms are outside the alphabet.
RECURSIVE DropZeros(_)
DropZeros(s) ==
    IF Len(s) > 1 /\ Char(s, Len(s)) = "0" /\ Char(s, Len(s) - 1) /= "."
    THEN DropZeros(SubSeq(s, 1, Len(s) - 1)) ELSE s

\* str() of a number json.loads produced.
NumStr(s) ==
    IF Contains(s, ".") THEN DropZeros(s)
    ELSE IF s = "-0" THEN "0"
    ELSE s

\* repr() and str() of a value json.loads produced; a str is quoted with
\* single quotes (the alphabet has no single quote inside values).
RECURSIVE PyRepr(_)
RECURSIVE ReprItems(_, _, _)
ReprItems(kv, keyed, i) ==
    IF i > Len(kv) THEN ""
    ELSE (IF i > 1 THEN ", " ELSE "")
         \o (IF keyed THEN "'" \o kv[i].k \o "': " ELSE "")
         \o PyRepr(kv[i].v) \o ReprItems(kv, keyed, i + 1)
PyRepr(v) ==
    CASE v.t = "none" -> "None"
      [] v.t = "str"  -> "'" \o v.s \o "'"
      [] v.t = "num"  -> NumStr(v.s)
      [] v.t = "bool" -> IF v.s = "true" THEN "True" ELSE "False"
      [] v.t = "list" -> "[" \o ReprItems(v.kv, FALSE, 1) \o "]"
      [] OTHER        -> "{" \o ReprItems(v.kv, TRUE, 1) \o "}"

PyStr(v) == IF v.t = "str" THEN v.s ELSE PyRepr(v)

\* Config.PDF_FOLDER
PDF_FOLDER == "."

\* extract_info_from_pdf: a text of fewer characters, once stripped, counts
\* as no text.
MinTextLength == 100

\* extract_info_from_pdf: (full_text, title, year, status); the title and the
\* year found on the first page are the document's.
extract_info_from_pdf(doc) ==
    IF doc.text.raised
    THEN [text |-> doc.text, has_text |-> FALSE,
          title |-> "Extraction Error", year |-> "Extraction Error",
          status |-> "Error: Failed to process PDF - " \o doc.text.msg]
    ELSE IF doc.text.chars < MinTextLength
    THEN [text |-> doc.text, has_text |-> FALSE, title |-> doc.title, year |-> doc.year,
          status |-> "Warning: Very little text extracted. PDF may be image-based or corrupted."]
    ELSE [text |-> doc.text, has_text |-> TRUE, title |-> doc.title, year |-> doc.year,
          status |-> "Success"]

\* str(e) of a json.JSONDecodeError; the position it names is not modelled.
JsonErrorText == "Expecting value: line 1 column 1 (char 0)"

Verdict(decision, justification) ==
    <<[k |-> "decision", v |-> VStr(decision)], [k |-> "justification", v |-> VStr(justification)]>>

\* ValidateResult without the two tests: whatever was decoded is returned
\* when it is an object.
ValidateResult_unchecked(label, result) ==
    IF result.t = "dict" THEN result.kv
    ELSE Verdict("API Error", label \o " API error: not an object")

\* "'decision' not in result or 'justification' not in result", then
\* "result['decision'] not in ['Include', 'Exclude']", for a decoded result.
\* The in operator raises TypeError on a number, a bool or None, and indexing
\* a list or a str with a str raises TypeError; both reach "except Exception".
ValidateResult(label, result) ==
    CASE result.t = "dict" ->
            IF ~DictHas(result.kv, "decision") \/ ~DictHas(result.kv, "justification")
            THEN Verdict("Parse Error", "Missing required keys in model response")
            ELSE IF DictGet(result.kv, "decision", VNone) \notin {VStr("Include"), VStr("Exclude")}
            THEN Verdict("Parse Error", "Invalid decision value: "
                                            \o PyStr(DictGet(result.kv, "decision", VNone)))
            ELSE result.kv
      [] result.t = "list" ->
            IF \A key \in {"decision", "justification"} :
                   \E i \in 1..Len(result.kv) : result.kv[i].v = VStr(key)
            THEN Verdict("API Error", label \o " API error: list indices must be integers or slices, not str")
            ELSE Verdict("Parse Error", "Missing required keys in model response")
      [] result.t = "str" ->
            IF Contains(result.s, "decision") /\ Contains(result.s, "justification")
            THEN Verdict("API Error", label \o " API error: string indices must be integers, not 'str'")
            ELSE Verdict("Parse Error", "Missing required keys in model response")
      [] OTHER ->
            Verdict("API Error", label \o " API error: argument of type '" \o TypeName(result)
                                       \o "' is not iterable")

\* json.loads of the reply's text, then the validation.
DecodeAndValidate(label, text) ==
    LET result == JsonLoads(text)
    IN  IF ~result.ok
        THEN Verdict("JSON Error", "Invalid JSON response from " \o label \o ": " \o JsonErrorText)
        ELSE ValidateResult(label, result.v)

\* analyze_text_with_claude: response.content[0].text of a reply without
\* content raises IndexError.
analyze_text_with_claude(reply) ==
    CASE reply.kind \in {"transport_error", "text_raises"} ->
            Verdict("API Error", "Claude API error: " \o reply.text)
      [] reply.kind = "no_text" ->
            Verdict("API Error", "Claude API error: list index out of range")
      [] OTHER -> DecodeAndValidate("Claude", reply.text)

\* analyze_text_with_openai: message.content of a reply without content is
\* None, and json.loads(None) raises TypeError.
analyze_text_with_openai(reply) ==
    CASE reply.kind \in {"transport_error", "text_raises"} ->
            Verdict("API Error", "OpenAI API error: " \o reply.text)
      [] reply.kind = "no_text" ->
            Verdict("API Error", "OpenAI API error: the JSON object must be str, bytes or bytearray, not NoneType")
      [] OTHER -> DecodeAndValidate("OpenAI", reply.text)

\* analyze_text_with_gemini: GEMINI_TEMPLATE is an f-string, so its example
\* object is left in single braces and str.format raises KeyError before
\* the model is called.
analyze_text_with_gemini(reply) ==
    Verdict("API Error", "Gemini API error: '\"decision\"'")

\* process_single_pdf: the row, and the model calls made for it.
process_single_pdf(doc, name, model_name) ==
    LET info == extract_info_from_pdf(doc)
        analysis_result ==
            IF info.has_text
            THEN CASE model_name = "claude" -> analyze_text_with_claude(doc.reply)
                   [] model_name = "openai" -> analyze_text_with_openai(doc.reply)
                   [] model_name = "gemini" -> analyze_text_with_gemini(doc.reply)
                   [] OTHER -> Verdict("Model Error", "Unknown model: " \o model_name)
            ELSE Verdict("Extraction Error", info.status)
    IN  IF ~doc.exists
        THEN [row |-> <<[k |-> "Filename", v |-> VStr(name)],
                        [k |-> "Title", v |-> VStr("File Not Found")],
                        [k |-> "Year", v |-> VStr("Error")],
                        [k |-> "Decision", v |-> VStr("File Error")],
                        [k |-> "Justification",
                         v |-> VStr("File " \o name \o " not found in " \o PDF_FOLDER)]>>,
              calls |-> <<>>]
        ELSE [row |-> <<[k |-> "Filename", v |-> VStr(name)],
                        [k |-> "Title", v |-> VStr(info.title)],
                        [k |-> "Year", v |-> VStr(info.year)],
                        [k |-> "Decision",
                         v |-> DictGet(analysis_result, "decision", VStr("Parse Error"))],
                        [k |-> "Justification",
                         v |-> DictGet(analysis_result, "justification",
                                       VStr("Could not parse model response"))]>>,
              calls |-> IF info.has_text /\ model_name \in {"claude", "openai"}
                        THEN <<[filename |-> name, method |-> model_name]>> ELSE <<>>]

----------------------------------------------------------------------------
(* The screening script: the checkpoint file *)

\* ESCAPE_ASCII of json.dump: the characters of a str as they are written
\* inside a literal.
EscapeChar(c) ==
    CASE c = "\"" -> "\\\""
      [] c = "\\" -> "\\\\"
      [] c = "\n" -> "\\n"
      [] c = "\t" -> "\\t"
      [] c = "\r" -> "\\r"
      [] c = "\f" -> "\\f"
      [] OTHER    -> c

RECURSIVE Escaped(_)
Escaped(s) == IF s = "" THEN "" ELSE EscapeChar(Char(s, 1)) \o Escaped(SubSeq(s, 2, Len(s)))

\* float.__repr__ and int.__repr__ as json.dump writes them.
DumpNumber(s) ==
    CASE s = "nan"  -> "NaN"
      [] s = "inf"  -> "Infinity"
      [] s = "-inf" -> "-Infinity"
      [] OTHER      -> NumStr(s)

\* json.dump(obj, f, indent=2): every item of a non-empty container on its
\* own line, two spaces deeper than the container.
RECURSIVE JsonDumpIndented(_, _)
RECURSIVE DumpIndentedItems(_, _, _, _)
DumpIndentedItems(kv, keyed, level, i) ==
    IF i > Len(kv) THEN ""
    ELSE (IF i > 1 THEN "," ELSE "") \o "\n" \o Repeat(" ", 2 * level)
         \o (IF keyed THEN "\"" \o Escaped(kv[i].k) \o "\": " ELSE "")
         \o JsonDumpIndented(kv[i].v, level) \o DumpIndentedItems(kv, keyed, level, i + 1)
JsonDumpIndented(v, level) ==
    CASE v.t = "none" -> "null"
      [] v.t = "str"  -> "\"" \o Escaped(v.s) \o "\""
      [] v.t = "num"  -> DumpNumber(v.s)
      [] v.t = "bool" -> v.s
      [] v.t = "list" ->
            IF Len(v.kv) = 0 THEN "[]"
            ELSE "[" \o DumpIndentedItems(v.kv, FALSE, level + 1, 1)
                     \o "\n" \o Repeat(" ", 2 * level) \o "]"
      [] OTHER ->
            IF Len(v.kv) = 0 THEN "{}"
            ELSE "{" \o DumpIndentedItems(v.kv, TRUE, level + 1, 1)
                     \o "\n" \o Repeat(" ", 2 * level) \o "}"

\* datetime.now().isoformat() at the time of a save.
Timestamp == "2025-01-01T12:00:00.000000"

\* save_progress: the file it leaves.
save_progress(results_list) ==
    [exists |-> TRUE,
     text |-> JsonDumpIndented(
                  VDict(<<[k |-> "timestamp", v |-> VStr(Timestamp)],
                          [k |-> "processed_count", v |-> VNum(ToString(Len(results_list)))],
                          [k |-> "results",
                           v |-> VList([i \in 1..Len(results_list) |-> VDict(results_list[i])])]>>),
                  0)]

\* load_progress: data.get('results', []); no file, undecodable text, and a
\* document that is not an object all give [].
load_progress(file) ==
    LET data == JsonLoads(file.text)
    IN  IF ~file.exists THEN VList(<<>>)
        ELSE IF ~data.ok \/ data.v.t /= "dict" THEN VList(<<>>)
        ELSE DictGet(data.v.kv, "results", VList(<<>>))

\* Iterating results_list and putting each result['Filename'] in a set works
\* for a list of objects that each have the key with a hashable value;
\* anything else raises.
IsResultsList(results) ==
    /\ results.t = "list"
    /\ \A i \in 1..Len(results.kv) :
          /\ results.kv[i].v.t = "dict"
          /\ DictHas(results.kv[i].v.kv, "Filename")
          /\ DictGet(results.kv[i].v.kv, "Filename", VNone).t \notin {"list", "dict"}

\* The rows of a loaded results list.
RowsOf(results) == [i \in 1..Len(results.kv) |-> results.kv[i].v.kv]

\* get_processed_filenames
get_processed_filenames(results_list) ==
    {DictGet(results_list[i], "Filename", VNone) : i \in 1..Len(results_list)}

----------------------------------------------------------------------------
(* The scripts' main loops *)

\* Bound: the number of files in a short list to process.
MaxFiles == 2

\* "if (i + 1) % 10 == 0: save_progress(results_list)"
CheckpointEvery == 10

\* "[f for f in files_to_process if f not in processed_files]"
RemainingFiles_unfiltered(files, processed_files) == files

RemainingFiles(files, processed_files) ==
    SelectSeq(files, LAMBDA f : VStr(f) \notin processed_files)

\* A loop that counts its files from 1 and tests the index as it is.
CheckpointDue_zeroBased(i) == i % CheckpointEvery = 0

\* "if (i + 1) % 10 == 0", i counting the files of this run from 0.
CheckpointDue(i) == (i + 1) % CheckpointEvery = 0

Scripts == {"hybrid", "gemini", "screening"}

\* pd.DataFrame(list of dicts): the columns are the keys of the rows in the
\* order in which they first appear, going through the rows in order.
RECURSIVE DataFrameColumns(_, _, _)
DataFrameColumns(rows, i, columns) ==
    IF i > Len(rows) THEN columns
    ELSE DataFrameColumns(rows, i + 1,
             columns \o SelectSeq([j \in 1..Len(rows[i]) |-> rows[i][j].k],
                                  LAMBDA key : \A n \in 1..Len(columns) : columns[n] /= key))

\* "final_df = pd.DataFrame(flat_results); final_df.to_csv(OUTPUT_CSV, ...)":
\* the file's header and its rows.
to_csv(rows) ==
    [written |-> TRUE, columns |-> DataFrameColumns(rows, 1, <<>>), rows |-> rows]

FileName(i) == "p" \o ToString(i) \o ".pdf"
FileList(n) == [i \in 1..n |-> FileName(i)]

\* What reading a PDF may do in a run.
Reads == {Unreadable("bad xref"), Readable(0, 0), Readable(0, 2), Readable(40, 0), Readable(120, 3)}

Answer(t) == [kind |-> "text", text |-> t]

\* What the language model may answer in a run.
Replies(script) ==
    {[kind |-> "transport_error", text |-> "timeout"], [kind |-> "no_text", text |-> ""]}
    \cup IF script = "screening"
         THEN {Answer("{\"decision\": \"Include\", \"justification\": \"meets the criteria\"}"),
               Answer("{\"decision\": \"Exclude\", \"justification\": 5}"),
               Answer("{\"decision\": \"Maybe\", \"justification\": \"unclear\"}"),
               Answer("{\"decision\": \"Include\"}"),
               Answer("{\"Decision\": \"Include\", \"justification\": \"fits\"}"),
               Answer("[\"decision\", \"justification\"]"),
               Answer("\"decision: Include, justification: fits\""),
               Answer("[1]"),
               Answer("not json")}
         ELSE {Answer("{\"title\": \"a\"}"),
               Answer("{\"n_overall\": 5}"),
               Answer("- Title: a"),
               Answer("[1]")}

PlainReply(script) ==
    IF script = "screening"
    THEN Answer("{\"decision\": \"Include\", \"justification\": \"meets the criteria\"}")
    ELSE Answer("{\"title\": \"a\"}")

\* A document for which everything works.
PlainDocument(script) ==
    [exists |-> TRUE, title |-> "Free water in the brain", year |-> "2020",
     docling |-> Readable(120, 3), text |-> Readable(120, 3),
     docling_reply |-> PlainReply(script), reply |-> PlainReply(script)]

MissingDocument(script) == [PlainDocument(script) EXCEPT !.exists = FALSE]

\* Whether a script asks the model about a text that was read.
Usable(script, read) ==
    IF script = "screening" THEN ~read.raised /\ read.chars >= MinTextLength ELSE HasText(read)

\* One read of a document and the reply to the prompt made from it; the
\* model is only asked when there is a usable text, so one reply stands for
\* all.
ReadAndReply(script) ==
    {<<r, PlainReply(script)>> : r \in {r \in Reads : ~Usable(script, r)}}
    \cup ({r \in Reads : Usable(script, r)} \X Replies(script))

\* The documents a script may meet: the hybrid script reads each twice.
Documents(script) ==
    {MissingDocument(script)}
    \cup IF script = "hybrid"
         THEN {[PlainDocument(script) EXCEPT !.docling = d[1], !.docling_reply = d[2],
                                             !.text = p[1], !.reply = p[2]] :
                   d \in ReadAndReply(script), p \in ReadAndReply(script)}
         ELSE {[PlainDocument(script) EXCEPT !.text = p[1], !.reply = p[2]] :
                   p \in ReadAndReply(script)}

\* The folders of a run: every file of the list is a plain document but at
\* most one, which is at one of the given positions.
Folders(script, n, positions) ==
    {[f \in {FileName(i) : i \in 1..n} |-> PlainDocument(script)]}
    \cup {[f \in {FileName(i) : i \in 1..n} |->
               IF f = FileName(k) THEN d ELSE PlainDocument(script)] :
              k \in positions \cap 1..n, d \in Documents(script)}

\* The lists of a run: short ones, and for the screening script lists long
\* enough for a checkpoint to be written, and for a second one to be written
\* by the same run or by the run that resumes it.
ListLengths(script) ==
    (0..MaxFiles)
    \cup IF script = "screening"
         THEN {CheckpointEvery, CheckpointEvery + 1, 2 * CheckpointEvery}
         ELSE {}

MainInit ==
    /\ pc = "start"
    /\ op = "main"
    /\ variant \in Scripts
    /\ ai_model \in CASE variant = "hybrid" -> {"gemini", "claude"}
                      [] variant = "gemini" -> {"gemini"}
                      [] OTHER -> {"claude", "openai", "gemini"}
    /\ response = NoResponse
    /\ json_in = VNone
    /\ outcome = NoOutcome
    /\ MergeIdle
    /\ FlattenIdle
    /\ \E n \in ListLengths(variant) :
          /\ files_to_process = FileList(n)
          /\ documents \in Folders(variant, n,
                                    IF n = 2 * CheckpointEvery THEN {n} ELSE {1, n})
    /\ loop_i = 0
    /\ all_results = <<>>
    /\ output_csv = NotWritten
    /\ progress_file = NoFile
    /\ model_calls = <<>>
    /\ remaining_files = <<>>
    /\ checkpointed = <<>>
    /\ resumed_from = <<>>

\* The extraction scripts reach their loop with the list as it is.
ExtractionStart ==
    /\ pc = "start" /\ variant \in {"hybrid", "gemini"}
    /\ remaining_files' = files_to_process
    /\ pc' = "loop"
    /\ UNCHANGED <<op, variant, ai_model, response, json_in, outcome,
                   docling_result, pymupdf_result, filename, merged, flatVars,
                   files_to_process, loop_i, all_results, output_csv, progress_file,
                   model_calls, documents, checkpointed, resumed_from>>

\* One iteration of the hybrid script's loop: a missing file is skipped, an
\* exception out of extract_data_hybrid ends the process.
HybridProcessFile ==
    /\ pc = "loop" /\ variant = "hybrid" /\ loop_i < Len(remaining_files)
    /\ LET name == remaining_files[loop_i + 1] IN
       IF ~documents[name].exists
       THEN /\ loop_i' = loop_i + 1
            /\ UNCHANGED <<pc, all_results, model_calls, docling_result, pymupdf_result,
                           filename>>
       ELSE \E r \in {extract_data_hybrid(documents[name], ai_model, name)} :
              /\ model_calls' = model_calls \o r.calls
              /\ docling_result' = r.docling
              /\ pymupdf_result' = r.pymupdf
              /\ filename' = name
              /\ IF r.out.raised
                 THEN /\ pc' = "crashed"
                      /\ UNCHANGED <<loop_i, all_results>>
                 ELSE /\ all_results' = Append(all_results, r.out.rec)
                      /\ loop_i' = loop_i + 1
                      /\ UNCHANGED pc
    /\ UNCHANGED <<op, variant, ai_model, response, json_in, outcome, merged, flatVars,
                   files_to_process, output_csv, progress_file, documents, screenVars>>

\* One iteration of the gemini script's loop.
GeminiProcessFile ==
    /\ pc = "loop" /\ variant = "gemini" /\ loop_i < Len(remaining_files)
    /\ LET name == remaining_files[loop_i + 1] IN
       IF ~documents[name].exists
       THEN /\ loop_i' = loop_i + 1
            /\ UNCHANGED <<pc, all_results, model_calls>>
       ELSE \E r \in {GeminiDocument(documents[name], name)} :
              /\ model_calls' = model_calls \o r.calls
              /\ IF r.out.raised
                 THEN /\ pc' = "crashed"
                      /\ UNCHANGED <<loop_i, all_results>>
                 ELSE /\ all_results' = Append(all_results, r.out.rec)
                      /\ loop_i' = loop_i + 1
                      /\ UNCHANGED pc
    /\ UNCHANGED <<op, variant, ai_model, response, json_in, outcome,
                   docling_result, pymupdf_result, filename, merged, flatVars,
                   files_to_process, output_csv, progress_file, documents, screenVars>>

\* After the loop: flat_results = [result.to_dict() ...] and to_csv.
WriteExtractionResults ==
    /\ pc = "loop" /\ variant \in {"hybrid", "gemini"} /\ loop_i = Len(remaining_files)
    /\ output_csv' = to_csv([i \in 1..Len(all_results) |-> to_dict(variant, all_results[i])])
    /\ pc' = "done"
    /\ UNCHANGED <<op, variant, ai_model, response, json_in, outcome,
                   docling_result, pymupdf_result, filename, merged, flatVars,
                   files_to_process, loop_i, all_results, progress_file,
                   model_calls, documents, screenVars>>

\* Ctrl-C between two iterations of an extraction script: nothing catches
\* KeyboardInterrupt, the process ends with what is on disk.
ExtractionInterrupt ==
    /\ pc = "loop" /\ variant \in {"hybrid", "gemini"}
    /\ pc' = "interrupted"
    /\ UNCHANGED <<op, variant, ai_model, response, json_in, outcome,
                   docling_result, pymupdf_result, filename, merged, flatVars,
                   mainVars>>

\* main() of the screening script up to its loop, on a first run or on a run
\* after an interrupted one: an empty list exits, the checkpoint is loaded,
\* the files it names are filtered out, and when none remains the loaded
\* results are written at once.
ScreeningStart ==
    /\ pc \in {"start", "interrupted"} /\ variant = "screening"
    /\ resumed_from' = IF progress_file.exists THEN checkpointed ELSE <<>>
    /\ model_calls' = <<>>
    /\ loop_i' = 0
    /\ \E loaded \in {load_progress(progress_file)} :
          IF files_to_process = <<>>
          THEN /\ pc' = "exited"
               /\ UNCHANGED <<all_results, remaining_files, output_csv>>
          ELSE IF ~IsResultsList(loaded)
          THEN /\ pc' = "crashed"
               /\ UNCHANGED <<all_results, remaining_files, output_csv>>
          ELSE LET results_list == RowsOf(loaded)
                   processed_files == get_processed_filenames(results_list)
                   remaining == RemainingFiles(files_to_process, processed_files)
               IN  /\ all_results' = results_list
                   /\ remaining_files' = remaining
                   /\ IF remaining = <<>>
                      THEN /\ output_csv' = to_csv(results_list)
                           /\ pc' = "done"
                      ELSE /\ pc' = "loop"
                           /\ UNCHANGED output_csv
    /\ UNCHANGED <<op, variant, ai_model, response, json_in, outcome,
                   docling_result, pymupdf_result, filename, merged, flatVars,
                   files_to_process, progress_file, documents, checkpointed>>

\* One iteration of the screening script's loop, its checkpoint included.
ScreeningProcessFile ==
    /\ pc = "loop" /\ variant = "screening" /\ loop_i < Len(remaining_files)
    /\ \E r \in {process_single_pdf(documents[remaining_files[loop_i + 1]],
                                    remaining_files[loop_i + 1], ai_model)} :
          /\ all_results' = Append(all_results, r.row)
          /\ model_calls' = model_calls \o r.calls
    /\ loop_i' = loop_i + 1
    /\ IF CheckpointDue(loop_i)
       THEN /\ progress_file' = save_progress(all_results')
            /\ checkpointed' = all_results'
       ELSE UNCHANGED <<progress_file, checkpointed>>
    /\ UNCHANGED <<pc, op, variant, ai_model, response, json_in, outcome,
                   docling_result, pymupdf_result, filename, merged, flatVars,
                   files_to_process, output_csv, documents, remaining_files,
                   resumed_from>>

\* After the loop: the results are written and the checkpoint is removed.
ScreeningFinish ==
    /\ pc = "loop" /\ variant = "screening" /\ loop_i = Len(remaining_files)
    /\ output_csv' = to_csv(all_results)
    /\ progress_file' = NoFile
    /\ checkpointed' = <<>>
    /\ pc' = "done"
    /\ UNCHANGED <<op, variant, ai_model, response, json_in, outcome,
                   docling_result, pymupdf_result, filename, merged, flatVars,
                   files_to_process, loop_i, all_results, model_calls, documents,
                   remaining_files, resumed_from>>

\* Ctrl-C between two iterations of the screening script: the handler of
\* the entry point prints a message and exits; it saves nothing.
ScreeningInterrupt ==
    /\ pc = "loop" /\ variant = "screening"
    /\ pc' = "interrupted"
    /\ UNCHANGED <<op, variant, ai_model, response, json_in, outcome,
                   docling_result, pymupdf_result, filename, merged, flatVars,
                   mainVars>>

MainNext ==
    \/ ExtractionStart
    \/ HybridProcessFile
    \/ GeminiProcessFile
    \/ WriteExtractionResults
    \/ ExtractionInterrupt
    \/ ScreeningStart
    \/ ScreeningProcessFile
    \/ ScreeningFinish
    \/ ScreeningInterrupt

SpecMain == MainInit /\ [][MainNext]_vars

----------------------------------------------------------------------------
(* Claims about the parser *)

AllAbsent(v, rec) == \A s \in SectionNames(v) : ~rec.sec[s].present
AllPresent(v, rec) == \A s \in SectionNames(v) : rec.sec[s].present

\* An error record: a non-empty diagnostic string and no section.
IsErrorRecord(v, rec) == rec.error.t = "str" /\ rec.error.s /= "" /\ AllAbsent(v, rec)

Extracted == pc = "return" /\ op = "extract"

\* What the structured decode of the response's text yields.
Decoded == JsonLoads(CleanResponse(response.text))

\* The call produced non-empty text under a supported model.
GotText == response.kind = "text" /\ response.text /= "" /\ ai_model \in {"gemini", "claude"}

\* C1: for every outcome of the model call (transport exception, empty
\* response, filtered response, malformed text, valid JSON of any shape),
\* extract_data_with_ai and extract_data_with_gemini return a record and raise
\* nothing; every failure (no usable text, an unsupported model, a decoded
\* value that cannot be mapped) is a record with a diagnostic string in error
\* and every section absent, and any record with error set has that shape.
C1_ParserNeverRaises ==
    Extracted =>
        /\ ~outcome.raised
        /\ (~GotText \/ (Decoded.ok /\ Decoded.v.t /= "dict")) => IsErrorRecord(variant, outcome.rec)
        /\ outcome.rec.error /= VNone => IsErrorRecord(variant, outcome.rec)
        /\ outcome.rec.error = VNone => AllPresent(variant, outcome.rec)

C1_Witness ==
    /\ Extracted
    /\ response.kind = "transport_error"
    /\ outcome.rec.error = VStr("An unexpected AI API error occurred: timeout")

\* C2: whenever the structured decode of a non-empty response does not yield
\* a key-value object (invalid JSON, or valid JSON that is an array, a number,
\* a string, ...), the result is the error-free record of the line-oriented
\* fallback on the raw response, never an error record.
C2_DecodeFailureFallsBack ==
    (Extracted /\ GotText /\ ~(Decoded.ok /\ Decoded.v.t = "dict")) =>
        /\ outcome = parse_structured_response(variant, response.text)
        /\ outcome.rec.error = VNone

\* dict.get(key): the value of key in a decoded object, None when absent.
ValueAt(obj, key) ==
    IF \E i \in 1..Len(obj.kv) : obj.kv[i].k = key
    THEN obj.kv[CHOOSE i \in 1..Len(obj.kv) : obj.kv[i].k = key].v
    ELSE VNone

\* C3: parse_json_response on any key-value object returns an error-free
\* record with every section present in which every schema field holds the
\* object's value for the key of exactly that name, and is unset when the
\* object has no such key; no other key has any effect.
C3_JsonFieldsByExactKey ==
    (pc = "return" /\ op = "parse_json_response" /\ json_in.t = "dict") =>
        /\ ~outcome.raised
        /\ outcome.rec.error = VNone
        /\ outcome.rec.filename = VNone
        /\ AllPresent(variant, outcome.rec)
        /\ \A s \in SectionNames(variant) : \A f \in SectionFields(variant, s) :
               outcome.rec.sec[s].f[f] = ValueAt(json_in, f)

C3_Witness ==
    /\ pc = "return" /\ op = "parse_json_response"
    /\ json_in = VDict(<<[k |-> "identification", v |-> VDict(<<[k |-> "title", v |-> VStr("X")]>>)],
                         [k |-> "study_aim", v |-> VNum("7")]>>)
    /\ outcome.rec.sec["identification"].f["title"] = VNone
    /\ outcome.rec.sec["characteristics"].f["study_aim"] = VNum("7")

\* The lines of a text: its maximal stretches without a line break.
LinesOf(text) ==
    LET starts == {a \in 1..(Len(text) + 1) : a = 1 \/ Char(text, a - 1) = "\n"}
        ends == {b \in 0..Len(text) : b = Len(text) \/ Char(text, b + 1) = "\n"}
    IN  {SubSeq(text, a, CHOOSE b \in ends :
                             /\ a <= b + 1
                             /\ \A c \in ends : a <= c + 1 => b <= c) : a \in starts}

\* A text without its leading and trailing whitespace.
TrimOf(x) ==
    LET solid == {i \in 1..Len(x) : Char(x, i) \notin PyWhitespace}
    IN  IF solid = {} THEN ""
        ELSE SubSeq(x, CHOOSE a \in solid : \A i \in solid : a <= i,
                       CHOOSE b \in solid : \A i \in solid : b >= i)

\* The position of the first ": " of t, 0 if it has none.
FirstColonSpace(t) ==
    LET at == {i \in 1..Len(t) - 1 : SubSeq(t, i, i + 1) = ": "}
    IN  IF at = {} THEN 0 ELSE CHOOSE i \in at : \A j \in at : i <= j

\* The trimmed line t has the shape "- Label: value" with Label a label of
\* the table whose target is field f of section s, and value its value.
SetsField(v, t, s, f, value) ==
    /\ StartsWith(t, "- ")
    /\ FirstColonSpace(t) > 0
    /\ \E r \in Range(Labels(v)) :
           /\ r.section = s /\ r.field = f
           /\ TrimOf(SubSeq(t, 3, FirstColonSpace(t) - 1)) \in Range(r.labels)
    /\ value = TrimOf(SubSeq(t, FirstColonSpace(t) + 2, Len(t)))

\* C4: in parse_structured_response, for any text, every field of the result
\* is either unset or the trimmed text after the first ": " of a line that,
\* trimmed, starts with "- ", contains ": " and carries a label of the table
\* that targets this field; no other line (blank, "**" or "---" header, other
\* shape, unknown label) sets anything.
C4_OnlyLabelLinesSetFields ==
    (pc = "return" /\ op = "parse_structured_response") =>
        /\ ~outcome.raised
        /\ outcome.rec.error = VNone
        /\ AllPresent(variant, outcome.rec)
        /\ \A trimmed \in {{TrimOf(l) : l \in LinesOf(response.text)}} :
           \A s \in SectionNames(variant) : \A f \in SectionFields(variant, s) :
               \/ outcome.rec.sec[s].f[f] = VNone
               \/ \E t \in trimmed :
                      /\ outcome.rec.sec[s].f[f].t = "str"
                      /\ SetsField(variant, t, s, f, outcome.rec.sec[s].f[f].s)

C4_Witness ==
    /\ pc = "return" /\ op = "parse_structured_response"
    /\ response.text = "- Title: a: b\n- Foo: x"
    /\ outcome.rec.sec["identification"].f["title"] = VStr("a: b")
    /\ \A s \in SectionNames(variant) : \A f \in SectionFields(variant, s) :
           f /= "title" => outcome.rec.sec[s].f[f] = VNone

\* C5: in the line-oriented fallback of every script variant a line
\* "- Aim: v" and a line "- Aim of study: v" each set study_aim to v.
C5_BothAimLabelsAccepted ==
    (pc = "return" /\ op = "parse_structured_response"
        /\ response.text \in {"- Aim: v", "- Aim of study: v"}) =>
        outcome.rec.sec["characteristics"].f["study_aim"] = VStr("v")

\* What one line of an answer sets in the line-oriented fallback: the target
\* field and the value, when the line is a "- label: value" line whose label
\* is in the script's table.
LineTarget(v, raw_line) ==
    LET line == Strip(raw_line)
        parts == SplitOnce(SubSeq(line, 3, Len(line)), ": ")
        label == IF Len(parts) = 2 THEN Strip(parts[1]) ELSE ""
        b == LabelBranch(v, label, 1)
    IN  IF StartsWith(line, "- ") /\ ~StartsWith(line, "---") /\ Contains(line, ": ")
           /\ Len(parts) = 2 /\ b /= 0
        THEN [hit |-> TRUE, section |-> Labels(v)[b].section, field |-> Labels(v)[b].field,
              label |-> label, value |-> Strip(parts[2])]
        ELSE [hit |-> FALSE, section |-> "", field |-> "", label |-> "", value |-> ""]

\* The lines of the answer the fallback is run on.
AnswerLines == Split(Strip(response.text), "\n")

\* What each line of the answer sets.
AnswerTargets == [i \in 1..Len(AnswerLines) |-> LineTarget(variant, AnswerLines[i])]

\* Lines i and j of the answer set the same field.
SameField(t, i, j) ==
    t[i].hit /\ t[j].hit /\ t[i].section = t[j].section /\ t[i].field = t[j].field

\* C19: in the line-oriented fallback a field that several lines of the text
\* set, by the same label or by different aliases, ends with the value of the
\* last such line; the earlier values are overwritten, not concatenated.
C19_LastLineWins ==
    (pc = "return" /\ op = "parse_structured_response" /\ ~outcome.raised) =>
        \A t \in {AnswerTargets} : \A i \in DOMAIN t :
            (t[i].hit /\ ~\E j \in DOMAIN t : j > i /\ SameField(t, i, j)) =>
                outcome.rec.sec[t[i].section].f[t[i].field] = VStr(t[i].value)

\* Two lines set the same field through different aliases, with different
\* values.
C19_Witness ==
    /\ pc = "return" /\ op = "parse_structured_response" /\ ~outcome.raised
    /\ \E t \in {AnswerTargets} : \E i, j \in DOMAIN t :
          i < j /\ SameField(t, i, j) /\ t[i].label /= t[j].label /\ t[i].value /= t[j].value

\* The same label twice, with different values.
C19_RepeatedLabel ==
    /\ pc = "return" /\ op = "parse_structured_response" /\ ~outcome.raised
    /\ \E t \in {AnswerTargets} : \E i, j \in DOMAIN t :
          i < j /\ SameField(t, i, j) /\ t[i].label = t[j].label /\ t[i].value /= t[j].value

\* A json code fence: the marker with its tag, and the closing marker.
FenceOpen == Backtick \o Backtick \o Backtick \o "json"
FenceClose == Backtick \o Backtick \o Backtick

\* Whether a text is wrapped in a json code fence, and the text inside.
IsFenced(t) ==
    /\ Len(t) >= Len(FenceOpen) + Len(FenceClose)
    /\ StartsWith(t, FenceOpen)
    /\ SubSeq(t, Len(t) - Len(FenceClose) + 1, Len(t)) = FenceClose
Unfenced(t) == SubSeq(t, Len(FenceOpen) + 1, Len(t) - Len(FenceClose))

\* C24: a response that is a JSON object text J wrapped in a leading
\* json-tagged code-fence marker and a trailing code-fence marker is parsed to
\* exactly the record that J alone is parsed to: the structured decode of J.
C24_FenceStrippedOnly ==
    (Extracted /\ GotText /\ IsFenced(response.text)) =>
        \A J \in {JsonLoads(Unfenced(response.text))} :
            (J.ok /\ J.v.t = "dict") => outcome = parse_json_response(variant, J.v)

\* A fenced object, without line breaks around it, whose first key is made
\* of the tag's letters: the key and its value arrive whole.
C24_Witness ==
    /\ Extracted /\ GotText
    /\ response.text = FenceOpen \o "{\"n\": \"" \o Backtick \o "\", \"title\": \"no\"}" \o FenceClose
    /\ ~outcome.raised
    /\ outcome.rec.sec["identification"].f["title"] = VStr("no")

\* The tests of the label chain that one of their own labels reaches.
ReachedLabelTests(v) ==
    {b \in 1..Len(Labels(v)) : \E l \in Range(Labels(v)[b].labels) : LabelBranch(v, l, 1) = b}

\* The fields the label chain and the key lists write, each with its section.
LabelTargets(v) ==
    {<<Labels(v)[b].section, Labels(v)[b].field>> : b \in ReachedLabelTests(v)}
SchemaFields(v) ==
    UNION {{<<Schema(v)[n].name, Schema(v)[n].fields[j]>> : j \in 1..Len(Schema(v)[n].fields)} :
              n \in 1..Len(Schema(v))}

\* The parser tables of a script cover its schema exactly.
TablesCoverSchema(v) ==
    \A fields \in {SchemaFields(v)} : \A keys \in {JsonKeys(v)} :
        /\ ReachedLabelTests(v) = 1..Len(Labels(v))
        /\ LabelTargets(v) = fields
        /\ \A t \in fields :
              \E i \in 1..Len(keys) :
                  /\ keys[i].section = t[1]
                  /\ Cardinality({j \in 1..Len(keys[i].keys) : keys[i].keys[j] = t[2]}) = 1
                  /\ \A i2 \in 1..Len(keys) : i2 /= i => t[2] \notin Range(keys[i2].keys)
        /\ \A i \in 1..Len(keys) : \A j \in 1..Len(keys[i].keys) :
              <<keys[i].section, keys[i].keys[j]>> \in fields
        /\ v = "hybrid" =>
              \A i \in 1..Len(FIELD_PRIORITIES) :
                  \E t \in fields : t[2] = FIELD_PRIORITIES[i].field

\* C29: in each script the parser tables cover the schema exactly: every
\* schema field is the target of at least one label of the label chain and is
\* in exactly one key list of the structured decode, every target of either
\* table is a field of the section it is written to, and every key of
\* FIELD_PRIORITIES is a schema field.
C29_TablesCoverSchema ==
    (pc = "return" /\ op = "parse_json_response") => TablesCoverSchema(variant)

\* The structured decode of the gemini script set the one field of the
\* section that only that script has, from the key of the same name.
C29_Witness ==
    /\ pc = "return" /\ op = "parse_json_response" /\ variant = "gemini"
    /\ json_in = VDict(<<[k |-> "multiple_comparison_correction", v |-> VStr("v")]>>)
    /\ outcome.rec.sec["statistical_analysis"].f["multiple_comparison_correction"] = VStr("v")
    /\ TablesCoverSchema("gemini")

\* The label chain of the hybrid script set the last field of its schema.
C29_LastLabel ==
    /\ pc = "return" /\ op = "parse_structured_response" /\ variant = "hybrid"
    /\ outcome.rec.sec["key_findings"].f["other_measures"] = VStr("v")
    /\ TablesCoverSchema("hybrid")

----------------------------------------------------------------------------
(* Claims about the merge *)

\* merge_extraction_results has returned or raised. It changes nothing of its
\* inputs but one record's extraction_method, so their error and sections are
\* then as they were passed.
Merged == pc = "return" /\ op = "merge_extraction_results"

DoclingFailed == Truthy(docling_result.error)
PymupdfFailed == Truthy(pymupdf_result.error)

\* C6: with an error in both inputs the merge returns a record whose error
\* string contains both input error strings, the first attributed to Docling
\* and the second to PyMuPDF, with every section absent and the filename it
\* was given.
C6_BothFailedSummarised ==
    (Merged /\ DoclingFailed /\ PymupdfFailed) =>
        /\ ~merged.raised
        /\ merged.rec.error.t = "str"
        /\ Contains(merged.rec.error.s, "Docling: " \o docling_result.error.s)
        /\ Contains(merged.rec.error.s, "PyMuPDF: " \o pymupdf_result.error.s)
        /\ AllAbsent("hybrid", merged.rec)
        /\ merged.rec.filename = VStr(filename)

C6_Witness ==
    /\ Merged /\ DoclingFailed /\ PymupdfFailed
    /\ filename = "b.pdf"
    /\ merged.rec.error.s = "Both methods failed: Docling: Error with Docling extraction: e"
                                \o ", PyMuPDF: Error with PyMuPDF extraction: e"

\* C7: with an error in exactly one input the merge returns a record with no
\* error whose sections and fields are those of the error-free input, tagged
\* "docling_only" when PyMuPDF failed and "pymupdf_only" when Docling failed.
C7_OneFailedUsesOther ==
    (Merged /\ DoclingFailed /= PymupdfFailed) =>
        LET good == IF DoclingFailed THEN pymupdf_result ELSE docling_result
            tag == IF DoclingFailed THEN "pymupdf_only" ELSE "docling_only"
        IN  /\ ~merged.raised
            /\ merged.rec.error = VNone
            /\ merged.rec.sec = good.sec
            /\ merged.rec.extraction_method = VStr(tag)

C7_Witness ==
    /\ Merged /\ PymupdfFailed /\ ~DoclingFailed
    /\ docling_result.sec["identification"].f["title"] = VStr("a")
    /\ merged.rec.sec["identification"].f["title"] = VStr("a")
    /\ merged.rec.extraction_method = VStr("docling_only")

\* The fields FIELD_PRIORITIES gives a rule.
FieldsWithRule(rule) ==
    {FIELD_PRIORITIES[i].field :
        i \in {j \in 1..Len(FIELD_PRIORITIES) : FIELD_PRIORITIES[j].priority = rule}}

\* Meaningful: a string that is not empty, not whitespace only, and neither
\* "Not reported" nor "NR". None is not meaningful.
Meaningful(value) ==
    /\ value.t = "str"
    /\ value.s \notin {"Not reported", "NR"}
    /\ \E i \in 1..Len(value.s) : Char(value.s, i) \notin PyWhitespace

\* The priority policy of a field applied to the two pipelines' values.
Policy(field_name, docling_value, pymupdf_value) ==
    IF field_name \in FieldsWithRule("docling")
    THEN IF Meaningful(docling_value) THEN docling_value ELSE pymupdf_value
    ELSE IF field_name \in FieldsWithRule("pymupdf")
    THEN IF Meaningful(pymupdf_value) THEN pymupdf_value ELSE docling_value
    ELSE IF Meaningful(docling_value) /\ Meaningful(pymupdf_value)
    THEN IF Len(pymupdf_value.s) > Len(docling_value.s) THEN pymupdf_value ELSE docling_value
    ELSE IF Meaningful(docling_value) THEN docling_value
    ELSE IF Meaningful(pymupdf_value) THEN pymupdf_value
    ELSE VNone

\* Every field of the record is a string or None, as the dataclasses declare.
AllText(rec) ==
    \A s \in SectionNames("hybrid") : \A f \in SectionFields("hybrid", s) :
        rec.sec[s].f[f].t \in {"str", "none"}

\* A merge of two error-free records that hold every section, as both
\* parsers build them.
MergedParsed ==
    /\ Merged /\ ~DoclingFailed /\ ~PymupdfFailed
    /\ AllPresent("hybrid", docling_result) /\ AllPresent("hybrid", pymupdf_result)

\* C8: in an error-free merge of two parsed records, every field that
\* FIELD_PRIORITIES assigns to one pipeline gets that pipeline's value when it
\* is meaningful and the other pipeline's value, as it is, otherwise. The
\* merge returns whenever the fields are strings or None; with other values it
\* may raise instead, and the rule holds of every record it does return.
C8_FixedSourceFields ==
    MergedParsed =>
        /\ (AllText(docling_result) /\ AllText(pymupdf_result)) => ~merged.raised
        /\ ~merged.raised =>
             \A s \in SectionNames("hybrid") : \A f \in SectionFields("hybrid", s) :
                LET dv == docling_result.sec[s].f[f]
                    pv == pymupdf_result.sec[s].f[f]
                    mv == merged.rec.sec[s].f[f]
                IN  /\ f \in FieldsWithRule("docling") =>
                          mv = IF Meaningful(dv) THEN dv ELSE pv
                    /\ f \in FieldsWithRule("pymupdf") =>
                          mv = IF Meaningful(pv) THEN pv ELSE dv

C8_Witness ==
    /\ MergedParsed /\ ~merged.raised
    /\ docling_result.sec["mri_acquisition"].f["scanner_strength"] = VStr("Not reported")
    /\ pymupdf_result.sec["mri_acquisition"].f["scanner_strength"] = VStr("3T")
    /\ merged.rec.sec["mri_acquisition"].f["scanner_strength"] = VStr("3T")

\* C9: in an error-free merge of two parsed records, every field that
\* FIELD_PRIORITIES marks prefer_non_empty or does not list gets: of two
\* meaningful values the one with more characters, Docling's when they are
\* equally long; the meaningful one when only one is; None when neither is.
\* (Whenever the merge returns; it does for strings and None.)
C9_PreferNonEmptyFields ==
    (MergedParsed /\ ~merged.raised) =>
        \A s \in SectionNames("hybrid") : \A f \in SectionFields("hybrid", s) :
            LET dv == docling_result.sec[s].f[f]
                pv == pymupdf_result.sec[s].f[f]
                mv == merged.rec.sec[s].f[f]
            IN  f \notin (FieldsWithRule("docling") \cup FieldsWithRule("pymupdf")) =>
                    /\ (Meaningful(dv) /\ Meaningful(pv) /\ Len(dv.s) > Len(pv.s)) => mv = dv
                    /\ (Meaningful(dv) /\ Meaningful(pv) /\ Len(dv.s) < Len(pv.s)) => mv = pv
                    /\ (Meaningful(dv) /\ Meaningful(pv) /\ Len(dv.s) = Len(pv.s)) => mv = dv
                    /\ (Meaningful(dv) /\ ~Meaningful(pv)) => mv = dv
                    /\ (~Meaningful(dv) /\ Meaningful(pv)) => mv = pv
                    /\ (~Meaningful(dv) /\ ~Meaningful(pv)) => mv = VNone

C9_Witness ==
    /\ MergedParsed /\ ~merged.raised
    /\ docling_result.sec["identification"].f["doi"] = VStr("bb")
    /\ pymupdf_result.sec["identification"].f["doi"] = VStr("aa")
    /\ merged.rec.sec["identification"].f["doi"] = VStr("bb")

\* A field of a record, a field of an absent section counting as missing.
FieldOf(rec, s, f) == IF rec.sec[s].present THEN rec.sec[s].f[f] ELSE VNone

C11_MergeIsTotal == Merged => ~merged.raised

\* C26: merge_extraction_results leaves both of its input records as they
\* were (filename, method tag, error and sections) in each of its four paths,
\* and the record it returns is neither of the two input objects.
C26_MergeLeavesInputs ==
    [][MergeExtractionResults =>
          /\ docling_result' = docling_result
          /\ pymupdf_result' = pymupdf_result
          /\ merge_extraction_results(docling_result, pymupdf_result, filename).same_as = "none"]_vars

\* What does hold: the inputs keep their filename, error and sections in
\* every path, and are left unchanged, with a new object returned, when both
\* or neither carry an error.
C26_OnlyTagChanges ==
    [][MergeExtractionResults =>
          /\ docling_result' = [docling_result EXCEPT
                                   !.extraction_method = docling_result'.extraction_method]
          /\ pymupdf_result' = [pymupdf_result EXCEPT
                                   !.extraction_method = pymupdf_result'.extraction_method]
          /\ ErrorBranch(docling_result, pymupdf_result) \in {"both", "merge"} =>
                /\ docling_result' = docling_result
                /\ pymupdf_result' = pymupdf_result
                /\ merge_extraction_results(docling_result, pymupdf_result,
                                            filename).same_as = "none"]_vars

\* C27: an error-free merge of two parsed records whose fields are strings
\* or None loses no meaningful data: it returns, and for every schema field
\* the merged value is meaningful exactly when at least one of the two input
\* values is, and is then one of the two input values.
C27_NoMeaningfulDataLost ==
    (MergedParsed /\ AllText(docling_result) /\ AllText(pymupdf_result)) =>
        /\ ~merged.raised
        /\ \A s \in SectionNames("hybrid") : \A f \in SectionFields("hybrid", s) :
              LET dv == docling_result.sec[s].f[f]
                  pv == pymupdf_result.sec[s].f[f]
                  mv == merged.rec.sec[s].f[f]
              IN  /\ Meaningful(mv) <=> (Meaningful(dv) \/ Meaningful(pv))
                  /\ Meaningful(mv) => mv \in {dv, pv}

\* A field for which Docling is preferred: Docling's record holds the
\* placeholder, PyMuPDF's a value, and the value is kept.
C27_Witness ==
    /\ MergedParsed /\ ~merged.raised
    /\ docling_result.sec["mri_acquisition"].f["tr"] = VStr("NR")
    /\ pymupdf_result.sec["mri_acquisition"].f["tr"] = VStr("aa")
    /\ merged.rec.sec["mri_acquisition"].f["tr"] = VStr("aa")

\* Neither record holds a meaningful value: the merged one is not meaningful.
C27_NothingToKeep ==
    /\ MergedParsed /\ ~merged.raised
    /\ docling_result.sec["free_water_results"].f["clinical_group_fw_values"] = VStr(" ")
    /\ pymupdf_result.sec["free_water_results"].f["clinical_group_fw_values"] = VStr("Not reported")
    /\ ~Meaningful(merged.rec.sec["free_water_results"].f["clinical_group_fw_values"])

----------------------------------------------------------------------------
(* Claims about the flattener *)

Flattened == pc = "return" /\ op = "to_dict"

\* The values of the fields of the sections a record has, sections in schema
\* order from section i on, fields in the order the section declares them.
RECURSIVE SchemaValues(_, _, _)
SchemaValues(v, rec, i) ==
    IF i > Len(Schema(v)) THEN <<>>
    ELSE LET s == Schema(v)[i].name
         IN  (IF rec.sec[s].present
              THEN [j \in 1..Len(Schema(v)[i].fields) |-> rec.sec[s].f[Schema(v)[i].fields[j]]]
              ELSE <<>>)
                 \o SchemaValues(v, rec, i + 1)

\* The columns every row starts with: filename, and the method tag in the
\* hybrid script.
LeadColumns(v, rec) ==
    IF v = "hybrid"
    THEN <<[k |-> "filename", v |-> rec.filename],
           [k |-> "extraction_method", v |-> rec.extraction_method]>>
    ELSE <<[k |-> "filename", v |-> rec.filename]>>

\* C12: to_dict on a record without error returns one flat mapping: after
\* the leading columns, one column for each field of each section the record
\* has, sections in schema order and fields in declaration order, each
\* holding that field's value; a section that is None contributes no column.
C12_FlatRowOfPresentSections ==
    (Flattened /\ record.error = VNone) =>
        LET lead == LeadColumns(variant, record)
            values == SchemaValues(variant, record, 1)
        IN  /\ Len(row) = Len(lead) + Len(values)
            /\ \A j \in 1..Len(lead) : row[j] = lead[j]
            /\ \A j \in 1..Len(values) : row[Len(lead) + j].v = values[j]
            /\ \A j, k \in 1..Len(row) : row[j].k = row[k].k => j = k

C12_Witness ==
    /\ Flattened /\ record.error = VNone /\ variant = "gemini"
    /\ \A s \in SectionNames("gemini") : record.sec[s].present <=> s = "associations"
    /\ Len(row) = 1 + Len(FieldSeq("gemini", "associations"))
    /\ row[2].v = VStr("r:" \o FieldSeq("gemini", "associations")[1])

\* C13: a record whose error is set has none of its sections read. to_dict
\* returns only the leading columns and the error column, also when the
\* record's sections are built; merge_extraction_results puts no field value
\* of an errored input into its result: with both inputs errored the result
\* has no section, with one errored its sections are the other input's.
C13_ErroredSectionsNeverRead ==
    /\ (Flattened /\ record.error /= VNone) =>
           row = LeadColumns(variant, record) \o <<[k |-> "error", v |-> record.error]>>
    /\ (Merged /\ (DoclingFailed \/ PymupdfFailed)) =>
           /\ ~merged.raised
           /\ (DoclingFailed /\ PymupdfFailed) => AllAbsent("hybrid", merged.rec)
           /\ (DoclingFailed /\ ~PymupdfFailed) => merged.rec.sec = pymupdf_result.sec
           /\ (~DoclingFailed /\ PymupdfFailed) => merged.rec.sec = docling_result.sec
           /\ \A s \in SectionNames("hybrid") : \A f \in SectionFields("hybrid", s) :
                 \A e \in {docling_result, pymupdf_result} :
                     (Truthy(e.error) /\ FieldOf(e, s, f) /= VNone) =>
                         FieldOf(merged.rec, s, f) /= FieldOf(e, s, f)

C13_Witness ==
    /\ Flattened /\ variant = "hybrid"
    /\ record.error = VStr("Error reading PDF: e")
    /\ AllPresent("hybrid", record)
    /\ record.sec["identification"].f["title"] = VStr("r:title")
    /\ Len(row) = 3


\* The columns of a row after the leading ones, which are the section columns
\* of an error-free record.
SectionColumnsOf(v, rec, flat) == SubSeq(flat, Len(LeadColumns(v, rec)) + 1, Len(flat))

\* The schema's field names, sections in schema order from section i on.
RECURSIVE SchemaFieldSeq(_, _)
SchemaFieldSeq(v, i) ==
    IF i > Len(Schema(v)) THEN <<>> ELSE Schema(v)[i].fields \o SchemaFieldSeq(v, i + 1)

\* Flattening an error-free record with every section built.
FlattenedFull == Flattened /\ ~HasError(record) /\ AllPresent(variant, record)

\* C30: for an error-free record with all sections present, the section
\* columns to_dict produces are exactly the schema's field names: every
\* column key is the name of a schema field and holds that field's value, and
\* every field has exactly one column; none is missing, duplicated or renamed.
C30_ColumnsAreFieldNames ==
    FlattenedFull =>
        \A cols \in {SectionColumnsOf(variant, record, row)} :
            /\ \A j \in 1..Len(cols) :
                  /\ cols[j].k \in AllFields(variant)
                  /\ cols[j].v = record.sec[SectionOf(variant, cols[j].k)].f[cols[j].k]
            /\ \A s \in SectionNames(variant) : \A f \in SectionFields(variant, s) :
                  Cardinality({j \in 1..Len(cols) : cols[j].k = f}) = 1

\* What does hold: there is one column for each field, holding its value, in
\* schema order; its key is the field's name in the gemini script, and in the
\* hybrid script for every field but roi_definition_method, whose column is
\* ROI_definition_method.
C30_OneColumnRenamed ==
    FlattenedFull =>
        \A cols \in {SectionColumnsOf(variant, record, row)} :
        \A names \in {SchemaFieldSeq(variant, 1)} :
            /\ Len(cols) = Len(names)
            /\ \A j \in 1..Len(cols) :
                  /\ cols[j].v = record.sec[SectionOf(variant, names[j])].f[names[j]]
                  /\ cols[j].k = IF variant = "hybrid" /\ names[j] = "roi_definition_method"
                                 THEN "ROI_definition_method"
                                 ELSE names[j]

\* The hybrid row of a full record: the value of roi_definition_method is
\* under ROI_definition_method and no column is named roi_definition_method.
C30_RenamedColumn ==
    /\ FlattenedFull /\ variant = "hybrid"
    /\ record.sec["analysis_methods"].f["roi_definition_method"] = VStr("r:roi_definition_method")
    /\ \E j \in 1..Len(row) : row[j] = [k |-> "ROI_definition_method",
                                        v |-> VStr("r:roi_definition_method")]
    /\ \A j \in 1..Len(row) : row[j].k /= "roi_definition_method"


----------------------------------------------------------------------------
(* Claims about the main loops *)

MainRun == op = "main"

\* The files this run's loop has handled so far.
Processed == {remaining_files[i] : i \in 1..loop_i}

\* The pipelines for which the model was asked about a file in this run.
CallsFor(name) ==
    {model_calls[i].method : i \in {j \in 1..Len(model_calls) : model_calls[j].filename = name}}

\* C14: in every script's main loop no document's outcome aborts the run: the
\* process never ends in an exception raised while a document is processed.
C14_NoOutcomeAbortsTheRun == MainRun => pc /= "crashed"

\* The rows held in memory, as the script would write them.
AccumulatedRows ==
    IF variant = "screening" THEN all_results
    ELSE [i \in 1..Len(all_results) |-> to_dict(variant, all_results[i])]

\* The rows on disk: in the output file, or else in the checkpoint file.
DurableRows ==
    IF output_csv.written THEN output_csv.rows
    ELSE IF progress_file.exists /\ IsResultsList(load_progress(progress_file))
         THEN RowsOf(load_progress(progress_file))
    ELSE <<>>

\* C15: when the process has exited on an interrupt, every result that was
\* accumulated in memory is on disk, in the output file or the checkpoint.
C15_InterruptKeepsResults == (MainRun /\ pc = "interrupted") => DurableRows = AccumulatedRows


\* The filenames of the rows this run found in the checkpoint.
Checkpointed == {DictGet(resumed_from[i], "Filename", VNone) : i \in 1..Len(resumed_from)}

\* The files of the list that the checkpoint does not name, in list order.
NotCheckpointed == SelectSeq(files_to_process, LAMBDA f : VStr(f) \notin Checkpointed)

\* C16: a screening run that starts with a checkpoint never processes, and
\* never sends to the model, a file the checkpoint names; its final output is
\* the checkpointed rows unchanged, followed by one row for each remaining
\* file of the list in list order.
C16_ResumeSkipsCheckpointed ==
    (MainRun /\ variant = "screening" /\ pc \in {"loop", "done"} /\ resumed_from /= <<>>) =>
        /\ \A name \in Processed : VStr(name) \notin Checkpointed
        /\ \A i \in 1..Len(model_calls) : VStr(model_calls[i].filename) \notin Checkpointed
        /\ pc = "done" =>
              /\ output_csv.written
              /\ output_csv.rows =
                    resumed_from \o [i \in 1..Len(NotCheckpointed) |->
                                        process_single_pdf(documents[NotCheckpointed[i]],
                                                           NotCheckpointed[i], ai_model).row]

\* A resumed run that finished after processing a file the checkpoint did
\* not name, with a checkpointed row whose justification is not a string.
C16_Witness ==
    /\ MainRun /\ variant = "screening" /\ pc = "done"
    /\ resumed_from /= <<>>
    /\ Len(output_csv.rows) > Len(resumed_from)
    /\ model_calls /= <<>>
    /\ \E i \in 1..Len(resumed_from) : DictGet(resumed_from[i], "Justification", VNone) = VNum("5")

\* A resumed run whose checkpointed rows hold double quotes.
C16_QuotedWitness ==
    /\ MainRun /\ variant = "screening" /\ pc = "done"
    /\ Len(resumed_from) = CheckpointEvery
    /\ \A i \in 1..Len(resumed_from) :
          Contains(DictGet(resumed_from[i], "Justification", VNone).s, "\"")
    /\ output_csv.rows = resumed_from


\* Whether reading gave a text that is not empty.
ReadGaveText(read) == ~read.raised /\ read.chars + read.blanks > 0

\* The record of the extraction scripts, and the row of the screening
\* script, for a file this run has processed.
RecordFor(name) == all_results[CHOOSE i \in 1..Len(all_results) : all_results[i].filename = VStr(name)]
RowFor(name) ==
    all_results[CHOOSE i \in 1..Len(all_results) :
                    DictGet(all_results[i], "Filename", VNone) = VStr(name)]

\* A record without any section.
NoSections(v, rec) == \A i \in 1..Len(Schema(v)) : ~rec.sec[Schema(v)[i].name].present

\* An error record carrying the status of a failed text extraction.
ErrorRecordOf(v, rec, status) == rec.error = VStr(status) /\ NoSections(v, rec)

\* C17 for one file of the gemini script.
C17_Gemini(name) ==
    LET status == extract_text_from_pdf(documents[name].text).status
    IN  /\ CallsFor(name) /= {} => status = "Success"
        /\ status /= "Success" =>
              CallsFor(name) = {} /\ ErrorRecordOf("gemini", RecordFor(name), status)

\* C17 for one file of the screening script.
C17_Screening(name) ==
    LET status == extract_info_from_pdf(documents[name]).status
    IN  /\ CallsFor(name) /= {} => status = "Success"
        /\ status /= "Success" =>
              /\ CallsFor(name) = {}
              /\ DictGet(RowFor(name), "Decision", VNone) = VStr("Extraction Error")
              /\ DictGet(RowFor(name), "Justification", VNone) = VStr(status)

\* C17 for the file extract_data_hybrid was last called on: each pipeline on
\* its own, and the other pipeline is still run.
C17_Hybrid ==
    LET doc == documents[filename]
        docling_status == extract_with_docling(doc.docling).status
        pymupdf_status == extract_text_from_pdf_pymupdf(doc.text).status
    IN  /\ "docling" \in CallsFor(filename) => docling_status = "Success"
        /\ "pymupdf" \in CallsFor(filename) => pymupdf_status = "Success"
        /\ docling_status /= "Success" =>
              /\ "docling" \notin CallsFor(filename)
              /\ ErrorRecordOf("hybrid", docling_result, docling_status)
              /\ ReadGaveText(doc.text) => "pymupdf" \in CallsFor(filename)
        /\ pymupdf_status /= "Success" =>
              /\ "pymupdf" \notin CallsFor(filename)
              /\ ErrorRecordOf("hybrid", pymupdf_result, pymupdf_status)
              /\ ReadGaveText(doc.docling) => "docling" \in CallsFor(filename)

\* C17: the model is called (and its response parsed) for a document only
\* when the text extraction's status is success; for any other status the
\* document gets an error record carrying that status and no model call is
\* made; in the hybrid script this holds for each pipeline and the other
\* pipeline still runs.
C17_ModelOnlyAfterExtraction ==
    MainRun =>
        CASE variant = "hybrid" -> filename /= "" => C17_Hybrid
          [] variant = "gemini" ->
                \A name \in Processed : documents[name].exists => C17_Gemini(name)
          [] OTHER ->
                \A name \in Processed : documents[name].exists => C17_Screening(name)

\* The hybrid script met a file Docling could not read, recorded Docling's
\* message and still asked the model about the PyMuPDF text.
C17_Witness ==
    /\ MainRun /\ variant = "hybrid" /\ filename /= ""
    /\ docling_result.error = VStr("Error with Docling extraction: bad xref")
    /\ CallsFor(filename) = {"pymupdf"}


\* An existing document whose extracted text has no characters (in the
\* hybrid script, from both extractors).
EmptyDocument(doc) ==
    /\ doc.exists
    /\ doc.text = Readable(0, 0)
    /\ variant = "hybrid" => doc.docling = Readable(0, 0)

\* The extraction statuses a script got for a document.
StatusesOf(doc) ==
    IF variant = "hybrid"
    THEN {extract_with_docling(doc.docling).status, extract_text_from_pdf_pymupdf(doc.text).status}
    ELSE {extract_text_from_pdf(doc.text).status}

\* The columns of a flat row.
ColumnsOf(flat) == {flat[i].k : i \in 1..Len(flat)}

\* C18: for a document whose extracted text contains no characters, the
\* extraction status is a failure string and not a success status, no model
\* call is made, and the flattened row holds the filename and the error (and
\* the method tag) and no section column.
C18_EmptyTextIsAFailure ==
    (MainRun /\ variant \in {"hybrid", "gemini"}) =>
        \A name \in Processed :
            EmptyDocument(documents[name]) =>
                /\ "Success" \notin StatusesOf(documents[name])
                /\ CallsFor(name) = {}
                /\ ColumnsOf(to_dict(variant, RecordFor(name)))
                       \subseteq {"filename", "extraction_method", "error"}

\* What does hold for such a document: no model call, and a row of filename
\* and error only, whose error text is built from the status "Success".
C18_EmptyTextRow ==
    (MainRun /\ variant \in {"hybrid", "gemini"}) =>
        \A name \in Processed :
            EmptyDocument(documents[name]) =>
                /\ CallsFor(name) = {}
                /\ ColumnsOf(to_dict(variant, RecordFor(name)))
                       \subseteq {"filename", "extraction_method", "error"}
                /\ RecordFor(name).error =
                       VStr(IF variant = "gemini" THEN "Success"
                            ELSE "Both methods failed: Docling: Success, PyMuPDF: Success")

\* The tags a final record may carry.
FinalTags == {VStr("hybrid"), VStr("docling_only"), VStr("pymupdf_only")}

\* C20: every record extract_data_hybrid returned carries one of the three
\* final tags, never an intermediate one, and the record for a document
\* neither of whose pipeline records carries an error is tagged "hybrid".
C20_FinalMethodTag ==
    (MainRun /\ variant = "hybrid") =>
        /\ \A i \in 1..Len(all_results) : all_results[i].extraction_method \in FinalTags
        /\ (pc /= "crashed" /\ filename /= ""
              /\ docling_result.error = VNone /\ pymupdf_result.error = VNone) =>
                 RecordFor(filename).extraction_method = VStr("hybrid")

\* Records of all three tags have been returned: a merged one from two
\* error-free pipelines, and one from each one-sided path.
C20_Witness ==
    /\ MainRun /\ variant = "hybrid" /\ pc = "done" /\ Len(all_results) = 2
    /\ all_results[1].extraction_method = VStr("hybrid")
    /\ all_results[1].error = VNone
    /\ all_results[2].extraction_method = VStr("pymupdf_only")


\* The rows the checkpoint file holds, as a run would load them.
CheckpointRows ==
    IF ~progress_file.exists THEN <<>>
    ELSE CHOOSE rows \in {IF IsResultsList(loaded) THEN RowsOf(loaded) ELSE <<>> :
                            loaded \in {load_progress(progress_file)}} : TRUE

C21_NineMissing ==
    /\ MainRun /\ variant = "screening" /\ pc = "loop"
    /\ progress_file.exists
    /\ Len(all_results) - Len(CheckpointRows) = CheckpointEvery - 1


\* Whether a call that got this reply failed: a transport error, an empty
\* response, or a response the script takes for invalid.
FailedCall(script, reply) ==
    \/ reply.kind /= "text"
    \/ reply.text = "[1]"
    \/ script = "screening" /\ reply.text = "not json"

\* The number of results this run holds for a file.
ResultsFor(name) ==
    Cardinality({i \in 1..Len(all_results) :
                    IF variant = "screening"
                    THEN DictGet(all_results[i], "Filename", VNone) = VStr(name)
                    ELSE all_results[i].filename = VStr(name)})

\* C22 for the file extract_data_hybrid was last called on: a pipeline whose
\* call failed keeps its error record, and when both failed so does the
\* document.
C22_Hybrid ==
    LET doc == documents[filename]
    IN  /\ ("docling" \in CallsFor(filename) /\ FailedCall("hybrid", doc.docling_reply)) =>
               IsErrorRecord("hybrid", docling_result)
        /\ ("pymupdf" \in CallsFor(filename) /\ FailedCall("hybrid", doc.reply)) =>
               IsErrorRecord("hybrid", pymupdf_result)
        /\ (CallsFor(filename) = {"docling", "pymupdf"}
               /\ FailedCall("hybrid", doc.docling_reply) /\ FailedCall("hybrid", doc.reply)) =>
               IsErrorRecord("hybrid", RecordFor(filename))

\* C22: within one run no document is sent to the model twice by the same
\* pipeline; a document whose call failed (transport error, empty response,
\* invalid response) has exactly one result in the run and that result is the
\* failure.
C22_NoSecondCall ==
    MainRun =>
        /\ \A i, j \in 1..Len(model_calls) : model_calls[i] = model_calls[j] => i = j
        /\ \A name \in Processed : ResultsFor(name) <= 1
        /\ CASE variant = "hybrid" -> (filename /= "" /\ pc /= "crashed") => C22_Hybrid
             [] variant = "gemini" ->
                   \A name \in Processed :
                       (CallsFor(name) /= {} /\ FailedCall("gemini", documents[name].reply)) =>
                           /\ ResultsFor(name) = 1
                           /\ IsErrorRecord("gemini", RecordFor(name))
             [] OTHER ->
                   \A name \in Processed :
                       (CallsFor(name) /= {} /\ FailedCall("screening", documents[name].reply)) =>
                           /\ ResultsFor(name) = 1
                           /\ DictGet(RowFor(name), "Decision", VNone)
                                  \in {VStr("API Error"), VStr("JSON Error"), VStr("Parse Error")}

\* The gemini script went on to a second file after the call for the first
\* one ended in a transport error; the first file still has its error record.
C22_Witness ==
    /\ MainRun /\ variant = "gemini" /\ loop_i = 2
    /\ documents[remaining_files[1]].reply.kind = "transport_error"
    /\ Len(model_calls) = 2
    /\ RecordFor(remaining_files[1]).error = VStr("An unexpected API error occurred: timeout")


\* The place of a column in the written table, 0 when it has none.
ColumnIndex(key) ==
    IF \E j \in 1..Len(output_csv.columns) : output_csv.columns[j] = key
    THEN CHOOSE j \in 1..Len(output_csv.columns) : output_csv.columns[j] = key
    ELSE 0

\* The columns to_dict writes before any section.
LeadKeys == {"filename", "extraction_method", "error"}

\* The section columns of the written table, each with the place of its
\* section in the schema.
WrittenSectionKeys ==
    {c \in UNION {{[key |-> Columns(variant)[i].columns[j].key,
                    section |-> CHOOSE n \in 1..Len(Schema(variant)) :
                                    Schema(variant)[n].name = Columns(variant)[i].section] :
                      j \in 1..Len(Columns(variant)[i].columns)} :
                  i \in 1..Len(Columns(variant))} :
        ColumnIndex(c.key) > 0}

\* The section columns of the written table follow schema-section order.
SectionColumnsInSchemaOrder ==
    \A c, d \in WrittenSectionKeys :
        c.section < d.section => ColumnIndex(c.key) < ColumnIndex(d.key)

\* C23: in the table an extraction script writes, whatever the mix and order
\* of error rows and error-free rows, the filename column and the error and
\* method columns come before every section column, and the section columns
\* follow schema-section order.
C23_LeadColumnsFirst ==
    (MainRun /\ variant \in {"hybrid", "gemini"} /\ output_csv.written) =>
        /\ \A lead \in LeadKeys : \A c \in WrittenSectionKeys :
               ColumnIndex(lead) > 0 => ColumnIndex(lead) < ColumnIndex(c.key)
        /\ SectionColumnsInSchemaOrder

\* What does hold of the written table: filename (and the method tag) come
\* first and the section columns follow schema-section order; the error
\* column is where the first error row put it.
C23_SectionOrderOnly ==
    (MainRun /\ variant \in {"hybrid", "gemini"} /\ output_csv.written) =>
        /\ \A lead \in LeadKeys \ {"error"} : \A c \in WrittenSectionKeys :
               ColumnIndex(lead) > 0 => ColumnIndex(lead) < ColumnIndex(c.key)
        /\ SectionColumnsInSchemaOrder

\* A table with an error-free row followed by an error row.
C23_MixedTable ==
    /\ MainRun /\ variant \in {"hybrid", "gemini"} /\ output_csv.written
    /\ Len(all_results) = 2
    /\ ~Truthy(all_results[1].error) /\ Truthy(all_results[2].error)
    /\ ColumnIndex("error") = Len(output_csv.columns)


\* A record is either an error record (error set, no section) or a data
\* record (error unset, every section of the script's schema present).
WellFormed(v, rec) ==
    \/ rec.error /= VNone /\ AllAbsent(v, rec)
    \/ rec.error = VNone /\ AllPresent(v, rec)

\* C25: every record the extraction pipelines produce (by the parser entry
\* points, by the extraction-failure branches and by merge_extraction_results
\* applied to these) either carries an error and no section, or carries no
\* error and every section of its script's schema.
C25_ErrorOrAllSections ==
    (MainRun /\ variant \in {"hybrid", "gemini"}) =>
        /\ \A i \in 1..Len(all_results) : WellFormed(variant, all_results[i])
        /\ (variant = "hybrid" /\ filename /= "") =>
              /\ WellFormed("hybrid", docling_result)
              /\ WellFormed("hybrid", pymupdf_result)

\* The hybrid script kept a data record for one file and an error record
\* for the next, whose Docling pipeline failed at extraction and whose
\* PyMuPDF pipeline failed at the model call.
C25_Witness ==
    /\ MainRun /\ variant = "hybrid" /\ filename /= "" /\ Len(all_results) = 2
    /\ AllPresent("hybrid", all_results[1]) /\ all_results[1].error = VNone
    /\ AllAbsent("hybrid", all_results[2]) /\ all_results[2].error /= VNone
    /\ docling_result.extraction_method = VStr("docling_failed")
    /\ documents[filename].reply.kind = "transport_error"

\* The same for every record the parser entry points return, on every
\* response of the parser's specification.
C25_ParserRecords ==
    (pc = "return" /\ op \in {"extract", "parse_json_response", "parse_structured_response"}
        /\ ~outcome.raised) => WellFormed(variant, outcome.rec)

\* The decisions a row of the screening script may carry.
Decisions ==
    {VStr(d) : d \in {"Include", "Exclude", "Parse Error", "JSON Error", "API Error",
                      "Model Error", "Extraction Error", "File Error"}}

\* Whether a reply's text decodes to an object that has a decision key with
\* the given value and a justification key.
DecidedBy(reply, decision) ==
    /\ reply.kind = "text"
    /\ \E result \in {JsonLoads(reply.text)} :
          /\ result.ok /\ result.v.t = "dict"
          /\ \E i \in 1..Len(result.v.kv) : result.v.kv[i].k = "decision"
          /\ \A i \in 1..Len(result.v.kv) :
                (result.v.kv[i].k = "decision"
                    /\ \A j \in (i + 1)..Len(result.v.kv) : result.v.kv[j].k /= "decision")
                   => result.v.kv[i].v = decision
          /\ \E i \in 1..Len(result.v.kv) : result.v.kv[i].k = "justification"

\* C28: in the screening script the Decision of every result row is one of
\* Include, Exclude, Parse Error, JSON Error, API Error, Model Error,
\* Extraction Error, File Error; it is Include or Exclude only when the model
\* was called for the row's file and its response decoded to an object with
\* a decision key of exactly that value and a justification key.
C28_DecisionValues ==
    (MainRun /\ variant = "screening") =>
        \A i \in 1..Len(all_results) :
            LET decision == DictGet(all_results[i], "Decision", VNone)
                name == DictGet(all_results[i], "Filename", VNone).s
            IN  /\ decision \in Decisions
                /\ decision \in {VStr("Include"), VStr("Exclude")} =>
                      /\ ai_model \in {"claude", "openai"}
                      /\ documents[name].exists
                      /\ extract_info_from_pdf(documents[name]).has_text
                      /\ DecidedBy(documents[name].reply, decision)
                      /\ name \in Processed => CallsFor(name) /= {}

\* A row that says Include after a row whose answer named a decision the
\* script does not know.
C28_Witness ==
    /\ MainRun /\ variant = "screening" /\ Len(all_results) = 2
    /\ documents[remaining_files[1]].reply.text = "{\"decision\": \"Maybe\", \"justification\": \"unclear\"}"
    /\ DictGet(all_results[1], "Decision", VNone) = VStr("Parse Error")
    /\ DictGet(all_results[2], "Decision", VNone) = VStr("Include")
    /\ CallsFor(remaining_files[2]) /= {}

\* A row whose answer was a list holding both key names.
C28_ListAnswer ==
    /\ MainRun /\ variant = "screening" /\ Len(all_results) = 1
    /\ documents[remaining_files[1]].reply.text = "[\"decision\", \"justification\"]"
    /\ DictGet(all_results[1], "Decision", VNone) = VStr("API Error")

====
